---- MODULE Spec2Model ----
(***************************************************************************)
(* A model of the midi-graph audio engine: the MIDI track scheduler        *)
(* (MidiTrackSource), the SoundFont range router, the RangeData voice pool *)
(* the looping sampler (WavSource), the tone generators, the combiner and *)
(* the node id counter.                                                    *)
(* Every component has its own specification (SpecMidi, SpecFont,          *)
(* SpecRange, SpecWav, ...); the variables of the other components are     *)
(* left alone by it.                                                       *)
(*                                                                         *)
(* Floating point: samples_per_tick and the sampler's                      *)
(* source_frames_per_output_frame are f64 in the source.  They are         *)
(* modelled as exact rationals <<num, den>> with dyadic or small values,   *)
(* for which the f64 products and quotients of the small integers used     *)
(* here truncate to the same integers as the exact ones.                   *)
(***************************************************************************)
EXTENDS Integers, Sequences, FiniteSets, TLC

(***************************************************************************)
(* Shared helpers                                                          *)
(***************************************************************************)

\* Rust's `x as usize` for the f64 value num/den (den > 0): truncation toward
\* zero, saturating at 0 for negative values.
AsUsize(num, den) == IF num < 0 THEN 0 ELSE num \div den

Min(a, b) == IF a < b THEN a ELSE b

RECURSIVE SumLens(_)
SumLens(s) == IF s = <<>> THEN 0 ELSE Head(s).len + SumLens(Tail(s))

\* All sequences over S of length lo..hi.
SeqsOf(S, lo, hi) == UNION {[1..k -> S] : k \in lo..hi}

(***************************************************************************)
(* State: the fields of each component, and what the model records of the  *)
(* last call on it.                                                        *)
(***************************************************************************)

\* MidiTrackSource
VARIABLES
    track_data,            \* smf.tracks[track_no]
    samples_per_tick,
    channel_no,
    has_finished,
    next_event_index,      \* 0-based, as in the source
    event_ticks_progress,
    consumer,              \* the subtree: frames rendered and events received
    pull                   \* what the last fill_buffer call did

midiVars == <<track_data, samples_per_tick, channel_no, has_finished,
              next_event_index, event_ticks_progress, consumer, pull>>

\* SoundFont
VARIABLES
    font_ranges,     \* the NoteRange of each child, in order
    font_call,       \* the last method called on the SoundFont and its message
    font_reached     \* how many times that call ran each child's on_event

fontVars == <<font_ranges, font_call, font_reached>>

\* RangeData
VARIABLES
    range,            \* RangeData::range
    next_on_index,
    consumers,        \* the voices: is_on and current_note of each
    note_ons,         \* the NoteOn events sent to the pool so far
    dispatched,       \* those of them with a note inside the range
    last_event        \* the last event, the cursor before it and the voices it reached

rangeVars == <<range, next_on_index, consumers, note_ons, dispatched, last_event>>

\* WavSource
VARIABLES
    wav_input,       \* the arguments of WavSource::new_from_data
    wav_ctor,        \* its result: "Ok" or "UserError"
    wav,             \* the WavSource built (its fields)
    wav_out          \* the last call on it and, for fill_buffer, what it did

wavVars == <<wav_input, wav_ctor, wav, wav_out>>

\* SquareWaveNode, TriangleWaveSource
VARIABLES
    osc,             \* the generator built (its fields; kind tells which)
    osc_out          \* the last call on it and what it did

oscVars == <<osc, osc_out>>

\* CombinerSource
VARIABLES
    combiner,        \* the combiner built: consumers and intermediate_buffer
    combiner_out     \* the last call on it and what it did

combinerVars == <<combiner, combiner_out>>

\* Node::new_node_id
VARIABLES
    NEXT_ID,         \* the process-wide counter
    id_pc,           \* each thread's position in new_node_id
    ids              \* the ids each thread was returned, in order

idsVars == <<NEXT_ID, id_pc, ids>>

\* duplicate()
VARIABLES
    dup              \* the last duplicate() call and the node it returned

dupVars == <<dup>>

\* soundfont_from_reader
VARIABLES
    sf2              \* the last SF2 load and the ranges it built

sf2Vars == <<sf2>>

vars == <<midiVars, fontVars, rangeVars, wavVars, oscVars, combinerVars, idsVars, dupVars, sf2Vars>>

\* What the operations of one component leave alone.
notMidi == <<fontVars, rangeVars, wavVars, oscVars, combinerVars, idsVars, dupVars, sf2Vars>>
notFont == <<midiVars, rangeVars, wavVars, oscVars, combinerVars, idsVars, dupVars, sf2Vars>>
notRange == <<midiVars, fontVars, wavVars, oscVars, combinerVars, idsVars, dupVars, sf2Vars>>
notWav == <<midiVars, fontVars, rangeVars, oscVars, combinerVars, idsVars, dupVars, sf2Vars>>
notOsc == <<midiVars, fontVars, rangeVars, wavVars, combinerVars, idsVars, dupVars, sf2Vars>>
notCombiner == <<midiVars, fontVars, rangeVars, wavVars, oscVars, idsVars, dupVars, sf2Vars>>
notIds == <<midiVars, fontVars, rangeVars, wavVars, oscVars, combinerVars, dupVars, sf2Vars>>
notDup == <<midiVars, fontVars, rangeVars, wavVars, oscVars, combinerVars, idsVars, sf2Vars>>
notSf2 == <<midiVars, fontVars, rangeVars, wavVars, oscVars, combinerVars, idsVars, dupVars>>

(***************************************************************************)
(* Part 1: MidiTrackSource (src/src/source/midi/track.rs)                  *)
(***************************************************************************)

\* Bounds of the MIDI model.
MaxTrackLen == 2
MaxPullFrames == 2
MaxConsumerFrames == 6

\* Tick deltas of the events of a track.
Deltas == {0, 1, 3}
\* MIDI channels of the events; the track source listens on channel_no.
Channels == {0, 1}
\* samples_per_tick values <<num, den>>.
SamplesPerTick == {<<1, 1>>, <<3, 2>>}

\* midly's TrackEventKind, as far as note_event_from_midi_event tells the
\* kinds apart: the two note messages (with a channel) and everything else.
TrackEvents ==
    [delta : Deltas, kind : {"NoteOn"}, channel : {0}, vel : {0, 64}]
        \cup [delta : Deltas, kind : {"NoteOn"}, channel : Channels \ {0}, vel : {64}]
        \cup [delta : Deltas, kind : {"NoteOff", "Meta"}, channel : {0}, vel : {0}]

Tracks == SeqsOf(TrackEvents, 1, MaxTrackLen)

\* Longer tracks of fewer events, for the order of dispatch: note messages on
\* the channel listened on and meta events.
MaxOrderLen == 3

OrderTracks ==
    SeqsOf([delta : {0, 1}, kind : {"NoteOn", "Meta"}, channel : {0}, vel : {64}],
           1, MaxOrderLen)

\* The tracks of a file, the track without events among them.
FileTracks == SeqsOf(TrackEvents, 0, MaxTrackLen)


\* The record of a pull: status is how the call ended.
NoPull ==
    [n |-> 0, segs |-> <<>>, disp |-> <<>>, reached |-> 0, status |-> "Ok"]

\* note_event_from_midi_event: Some(NodeEventOnChannel) for the note messages.
NoteEventFromMidiEvent(ev) ==
    IF ev.kind \in {"NoteOn", "NoteOff"}
    THEN [some |-> TRUE, channel |-> ev.channel, kind |-> ev.kind,
          vel |-> <<ev.vel, 127>>]
    ELSE [some |-> FALSE, channel |-> 0, kind |-> "None", vel |-> <<0, 127>>]

\* An on_event_reached that does not look at the channel.
EventDeliveredAnyChannel(chan, ne) == ne.some

\* on_event_reached: whether the event is handed to consumer.on_event.
EventDelivered(chan, ne) == ne.some /\ ne.channel = chan

\* The slice of the caller's buffer handed to write_buffer for the segment
\* up to the next event: buffer[0..buffer_samples_to_fill], in frames.
EventSegment(samples_until_event) == [start |-> 0, len |-> samples_until_event]

\* The slice handed to write_buffer when the next event lies beyond the
\* buffer: the whole buffer.
RestSegment(n) == [start |-> 0, len |-> n]

\* The ticks added to event_ticks_progress after rendering n frames.
TicksAdvanced(n, spt) == AsUsize(n * spt[2], spt[1])

\* The cursor after the event it pointed at was reached.
NextEventIndexStuck(index) == index

NextEventIndex(index) == index + 1

\* The test that marks the track finished, made after the cursor moved.
TrackFinishedEarly(index, len) == index + 1 >= len

TrackFinished(index, len) == index >= len

\* A return that comes after the dispatch of the event passed.
FinishedDispatchLate(disp, disp2) == disp2

\* The events dispatched (disp) when the track is marked finished, disp2
\* being those with the event just passed: the return comes first.
FinishedDispatch(disp, disp2) == disp

\* The loop of fill_buffer on a buffer of n frames.  st carries the cursor
\* (idx, prog, fin) and the record of the call: segs, the slices rendered by
\* the consumer, each with the number of events the consumer had received
\* in this call before it; disp, the events handed to the consumer, each with
\* the frames the consumer had rendered before it, in this call (off) and since
\* the start of the track (total); reached, the iterations that moved the
\* cursor.  An iteration that does not return moves the cursor, so a call that
\* has made more of them than the track has events would never return: the
\* model stops it there, with reached > Len(track).
RECURSIVE MidiLoop(_, _, _, _, _)
MidiLoop(track, spt, chan, n, st) ==
    IF st.reached > Len(track) THEN st ELSE
    LET next_event == track[st.idx + 1]
        ticks_until_event == next_event.delta - st.prog
        samples_until_event == AsUsize(ticks_until_event * spt[1], spt[2])
    IN  IF samples_until_event > n
        THEN [st EXCEPT !.segs = Append(@, RestSegment(n) @@ [epoch |-> Len(st.disp)]),
                        !.prog = @ + TicksAdvanced(n, spt)]
        ELSE LET seg == EventSegment(samples_until_event) @@ [epoch |-> Len(st.disp)]
                 segs2 == Append(st.segs, seg)
                 idx2 == NextEventIndex(st.idx)
                 ne == NoteEventFromMidiEvent(next_event)
                 disp2 == IF EventDelivered(chan, ne)
                          THEN Append(st.disp,
                                      [idx |-> st.idx, event |-> ne,
                                       off |-> SumLens(segs2),
                                       total |-> st.base + SumLens(segs2)])
                          ELSE st.disp
             IN  IF TrackFinished(idx2, Len(track))
                 THEN [st EXCEPT !.segs = segs2, !.prog = 0, !.idx = idx2,
                                 !.disp = FinishedDispatch(st.disp, disp2),
                                 !.fin = TRUE, !.reached = @ + 1]
                 ELSE MidiLoop(track, spt, chan, n,
                               [st EXCEPT !.segs = segs2, !.prog = 0, !.idx = idx2,
                                          !.disp = disp2, !.reached = @ + 1])

\* The frames the consumer has rendered are counted modulo FramesCap, which
\* no pull allowed by MaxConsumerFrames reaches: a pull renders at most one
\* buffer per event and one more.
FramesCap ==
    MaxConsumerFrames
        + ((IF MaxOrderLen > MaxTrackLen THEN MaxOrderLen ELSE MaxTrackLen) + 1)
              * MaxPullFrames

\* MidiTrackSource::fill_buffer on a buffer of n frames, on a track source no
\* call has panicked on.  The peek track_data[next_event_index] at the top of
\* the loop panics when the cursor is not an index of the track.
MidiPull(n) ==
    /\ pull.status = "Ok"
    /\ IF has_finished
       THEN /\ pull' = [NoPull EXCEPT !.n = n]
            /\ UNCHANGED <<has_finished, next_event_index, event_ticks_progress,
                           consumer>>
       ELSE IF next_event_index >= Len(track_data)
       THEN /\ pull' = [NoPull EXCEPT !.n = n,
                                      !.status = "panic: index out of bounds"]
            /\ UNCHANGED <<has_finished, next_event_index, event_ticks_progress,
                           consumer>>
       ELSE LET r == MidiLoop(track_data, samples_per_tick, channel_no, n,
                              [idx |-> next_event_index,
                               prog |-> event_ticks_progress,
                               fin |-> FALSE, segs |-> <<>>, disp |-> <<>>,
                               reached |-> 0, base |-> consumer.frames])
            IN  /\ has_finished' = r.fin
                /\ next_event_index' = r.idx
                /\ event_ticks_progress' = r.prog
                /\ consumer' = [frames |-> (consumer.frames + SumLens(r.segs))
                                               % FramesCap,
                                events |-> consumer.events + Len(r.disp)]
                /\ pull' = [n |-> n, segs |-> r.segs, disp |-> r.disp,
                            reached |-> r.reached, status |-> "Ok"]
    /\ UNCHANGED <<track_data, samples_per_tick, channel_no>>
    /\ UNCHANGED notMidi

\* A pull while the consumer has rendered fewer than MaxConsumerFrames frames.
MidiFillBuffer(n) == consumer.frames < MaxConsumerFrames /\ MidiPull(n)

\* One more pull with the frame count of the pull before it.
MidiRepull == pull.n > 0 /\ MidiPull(pull.n)

MidiNext == \E n \in 0..MaxPullFrames : MidiFillBuffer(n)


(***************************************************************************)
(* Claims about the MIDI track                                             *)
(***************************************************************************)

\* The tick offset of event idx (0-based) from the start of the track.
RECURSIVE CumulativeTicks(_, _)
CumulativeTicks(track, idx) ==
    IF idx < 0 THEN 0 ELSE track[idx + 1].delta + CumulativeTicks(track, idx - 1)

\* C1: MIDI tick alignment.  Every event handed to the subtree in a pull, at
\* cumulative tick offset D from the start of the track, is handed over after
\* exactly floor(D * samples_per_tick) frames have been rendered since the
\* start of the track.
C1_TickAlignment ==
    \A i \in 1..Len(pull.disp) :
        pull.disp[i].total =
            AsUsize(CumulativeTicks(track_data, pull.disp[i].idx) * samples_per_tick[1],
                    samples_per_tick[2])

\* The frames of the caller's buffer a rendered slice covers.
FramesOf(seg) == seg.start .. (seg.start + seg.len - 1)

\* C2: within one pull each event is dispatched at its exact sample boundary:
\* a buffer frame below the event's sample offset receives only audio the
\* subtree rendered before the event was dispatched (audio rendered after the
\* dispatch goes to frames at or after the offset).
C2_ExactSampleBoundary ==
    \A i \in 1..Len(pull.disp) :
        \A j \in 1..Len(pull.segs) :
            \A f \in FramesOf(pull.segs[j]) :
                f < pull.disp[i].off => pull.segs[j].epoch < i

\* C3: a pull of n frames on a track that is not finished when the pull
\* returns asks the subtree for exactly n frames in total.
C3_RendersExactlyN ==
    ~has_finished => SumLens(pull.segs) = pull.n

\* C17: once a track is finished it stays finished: a pull on a finished
\* track dispatches no event, asks the subtree for no frame (the buffer is
\* left as it was) and leaves the cursor alone; and a track is finished only
\* when its cursor has passed its last event.
C17_FinishedStaysFinished ==
    [][/\ has_finished =>
            /\ has_finished'
            /\ pull'.segs = <<>>
            /\ pull'.disp = <<>>
            /\ pull'.reached = 0
            /\ consumer' = consumer
            /\ next_event_index' = next_event_index
            /\ event_ticks_progress' = event_ticks_progress
       /\ has_finished' => next_event_index' >= Len(track_data')]_vars

\* A finished track was pulled again: the pull asked for frames and the
\* subtree rendered none.
C17_Witness ==
    /\ has_finished
    /\ pull.n > 0
    /\ pull.segs = <<>>
    /\ next_event_index = Len(track_data)

\* C18: a pull on a non-empty track returns: every iteration of the loop
\* that does not return moves the cursor by one, the cursor never passes the
\* end of the track, so a pull reaches at most Len(track) events.
C18_PullReturns ==
    [][/\ pull'.reached <= Len(track_data)
       /\ next_event_index' = next_event_index + pull'.reached
       /\ next_event_index' <= Len(track_data)]_vars

\* One pull reached two events.
C18_Witness ==
    /\ pull.reached >= 2
    /\ next_event_index >= 2

\* The track with every event moved to the channel chan.
Retarget(track, chan) == [i \in 1..Len(track) |-> [track[i] EXCEPT !.channel = chan]]

\* C24: a note event whose channel differs from the track's channel is
\* dropped: a pull that passes it does not hand it to the subtree, the
\* subtree receives only the events handed over, and the cursor and the
\* slices rendered are those of the same pull on the track with every event
\* on the track's channel.
C24_ForeignChannelDropped ==
    [][/\ \A i \in (next_event_index + 1)..next_event_index' :
            track_data[i].channel # channel_no =>
                \A d \in 1..Len(pull'.disp) : pull'.disp[d].idx # i - 1
       /\ consumer'.events = consumer.events + Len(pull'.disp)
       /\ ~has_finished =>
            LET r == MidiLoop(Retarget(track_data, channel_no), samples_per_tick,
                              channel_no, pull'.n,
                              [idx |-> next_event_index,
                               prog |-> event_ticks_progress,
                               fin |-> FALSE, segs |-> <<>>, disp |-> <<>>,
                               reached |-> 0, base |-> consumer.frames])
            IN  /\ r.idx = next_event_index'
                /\ r.prog = event_ticks_progress'
                /\ r.fin = has_finished'
                /\ Len(r.segs) = Len(pull'.segs)
                /\ \A j \in 1..Len(r.segs) : r.segs[j].len = pull'.segs[j].len
                /\ consumer'.frames = consumer.frames + SumLens(r.segs)]_vars

\* A pull passed a NoteOn on channel 1 that was not the last event of the
\* track, and handed nothing to the subtree of channel 0.
C24_Witness ==
    /\ Len(track_data) = 2
    /\ track_data[1].kind = "NoteOn"
    /\ track_data[1].channel # channel_no
    /\ next_event_index = 1
    /\ ~has_finished
    /\ pull.reached = 1
    /\ pull.disp = <<>>
    /\ consumer.events = 0

\* C30: a MIDI NoteOn with velocity 0 reached by the scheduler is handed to
\* the subtree as a NoteOff for that key; a NoteOn with velocity v > 0 is
\* handed over as NoteOn with vel = v/127.
C30_VelocityZero ==
    \A d \in 1..Len(pull.disp) :
        LET ev == track_data[pull.disp[d].idx + 1]
        IN  ev.kind = "NoteOn" =>
                IF ev.vel = 0
                THEN pull.disp[d].event.kind = "NoteOff"
                ELSE /\ pull.disp[d].event.kind = "NoteOn"
                     /\ pull.disp[d].event.vel = <<ev.vel, 127>>

\* C29: under repeated pulls of a fixed positive frame count every
\* non-empty track eventually becomes finished, for every positive
\* samples_per_tick, also one larger than the frames per pull.
C29_EventuallyFinished == <>has_finished

\* The Meta events of the model are Set Tempo events; this is the
\* samples_per_tick of the tempo they carry, unlike every initial one.
SetTempoSamplesPerTick == <<2, 1>>

\* C31: when a Set Tempo meta event has been reached in a track,
\* samples_per_tick is the one recomputed from the new tempo, so that every
\* later event is scheduled with it.
C31_SetTempo ==
    (\E i \in 1..next_event_index : track_data[i].kind = "Meta") =>
        samples_per_tick = SetTempoSamplesPerTick

\* C35: whenever a track is not finished, next_event_index is an index of
\* the track, so that the peek at the top of a pull is in bounds; in every
\* state, the state after construction on a track without events included.
C35_CursorInBounds ==
    ~has_finished => next_event_index < Len(track_data)

\* C36: the events of a track are dispatched in track order, each at most
\* once, and next_event_index never decreases: the events a pull dispatches
\* lie from the cursor before the pull up to the cursor after it, in
\* increasing order.  The final event of a track is never dispatched: the
\* track is marked finished as soon as the cursor passes it.
C36_DispatchOrder ==
    [][/\ next_event_index' >= next_event_index
       /\ \A i \in 1..Len(pull'.disp) :
            /\ pull'.disp[i].idx >= next_event_index
            /\ pull'.disp[i].idx < next_event_index'
            /\ pull'.disp[i].idx # Len(track_data) - 1
            /\ i > 1 => pull'.disp[i - 1].idx < pull'.disp[i].idx]_vars

\* One pull dispatched the first two events of a track of three note
\* messages and finished the track: the third was passed and not dispatched.
C36_Witness ==
    /\ Len(track_data) = 3
    /\ \A i \in 1..3 : track_data[i].kind = "NoteOn"
    /\ has_finished
    /\ next_event_index = 3
    /\ Len(pull.disp) = 2
    /\ pull.disp[1].idx = 0 /\ pull.disp[2].idx = 1
    /\ consumer.events = 2

(***************************************************************************)
(* Part 2: SoundFont, the range router (src/src/node/font/mod.rs)          *)
(***************************************************************************)

\* Bound of the SoundFont model: a font holds 1..MaxRanges ranges.
MaxRanges == 2

\* The MIDI keys (u8) the model's ranges and messages are drawn from.
Keys == {0, 1, 2, 3}

\* NoteRange::new_inclusive_range(lower, upper): no validation.
NoteRanges == [lower_inclusive : Keys, upper_inclusive : Keys]

\* NoteRange::contains
Contains(r, note) ==
    r.lower_inclusive <= note /\ r.upper_inclusive >= note

\* Message.data: the two note events and one event of another kind.
FontMessages ==
    [kind : {"NoteOn", "NoteOff"}, note : Keys] \cup {[kind |-> "Volume", note |-> 0]}


FontChildren == 1..Len(font_ranges)

NoFontCall ==
    [method |-> "none", msg |-> [kind |-> "Volume", note |-> 0], result |-> "none"]

\* The children whose on_event SoundFont::try_consume_event calls.
TryConsumeTargets(ranges, msg) ==
    IF msg.kind \in {"NoteOn", "NoteOff"}
    THEN {c \in 1..Len(ranges) : Contains(ranges[c], msg.note)}
    ELSE 1..Len(ranges)

\* The children whose on_event SoundFont::propagate calls.
PropagateTargets(ranges, msg) == 1..Len(ranges)

Hits(targets, c) == IF c \in targets THEN 1 ELSE 0

\* SoundFont::try_consume_event
FontTryConsumeEvent(msg) ==
    /\ font_call' = [method |-> "try_consume_event", msg |-> msg, result |-> "true"]
    /\ font_reached' = [c \in FontChildren |->
                            Hits(TryConsumeTargets(font_ranges, msg), c)]
    /\ UNCHANGED font_ranges
    /\ UNCHANGED notFont

\* SoundFont::propagate
FontPropagate(msg) ==
    /\ font_call' = [method |-> "propagate", msg |-> msg, result |-> "()"]
    /\ font_reached' = [c \in FontChildren |->
                            Hits(PropagateTargets(font_ranges, msg), c)]
    /\ UNCHANGED font_ranges
    /\ UNCHANGED notFont

\* Node::on_event (section 4.1 of the specification): try_consume, then
\* propagate whatever try_consume returned.
FontOnEvent(msg) ==
    /\ font_call' = [method |-> "on_event", msg |-> msg, result |-> "()"]
    /\ font_reached' = [c \in FontChildren |->
                            Hits(TryConsumeTargets(font_ranges, msg), c)
                            + Hits(PropagateTargets(font_ranges, msg), c)]
    /\ UNCHANGED font_ranges
    /\ UNCHANGED notFont

FontNext ==
    \E msg \in FontMessages :
        \/ FontTryConsumeEvent(msg)
        \/ FontPropagate(msg)
        \/ FontOnEvent(msg)

\* C4: SoundFont range routing.  After on_event with a NoteOn or NoteOff for
\* key k the event has reached only the children whose range contains k; an
\* event of another kind has reached every child.
C4_RangeRouting ==
    font_call.method = "on_event" =>
        \A c \in FontChildren :
            IF font_call.msg.kind \in {"NoteOn", "NoteOff"}
            THEN font_reached[c] > 0 => Contains(font_ranges[c], font_call.msg.note)
            ELSE font_reached[c] > 0

\* C34: one on_event call on a SoundFont, try_consume followed by propagate,
\* delivers the message to each child at most once, so that a child sees
\* one NoteOn for each NoteOn given to the font.
C34_AtMostOnce ==
    font_call.method = "on_event" =>
        \A c \in FontChildren : font_reached[c] <= 1

(***************************************************************************)
(* Part 3: RangeData, the voice pool (src/src/source/font/range.rs)        *)
(***************************************************************************)

SOURCE_CAPACITY == 8

\* Bound of the voice pool model: at most MaxNoteOns NoteOn events are sent
\* to the pool.
MaxNoteOns == 9

\* The notes (u8) the pool's range and events are drawn from.
Notes == {0, 1}

PoolRanges == [lower_inclusive : Notes, upper_inclusive : Notes]

PoolEvents ==
    [kind : {"NoteOn", "NoteOff"}, note : Notes] \cup {[kind |-> "Broadcast", note |-> 0]}


Voices == 0..(SOURCE_CAPACITY - 1)

\* SoundFontBuilder::add_range: SOURCE_CAPACITY duplicates of the consumer.
NewVoices == [v \in Voices |-> [is_on |-> FALSE, current_note |-> 0]]

NoPoolEvent == [kind |-> "none", note |-> 0, cursor |-> 0, k |-> 0, reached |-> {}]

\* A voice's on_event (WavSource::on_event).
VoiceOnEvent(voice, ev) ==
    CASE ev.kind = "NoteOn" -> [is_on |-> TRUE, current_note |-> ev.note]
      [] ev.kind = "NoteOff" ->
            IF voice.current_note # ev.note \/ ~voice.is_on
            THEN voice
            ELSE [voice EXCEPT !.is_on = FALSE]
      [] OTHER -> voice

\* A cursor that is advanced without wrapping around.
NextOnIndexNoWrap(index, len) == index + 1

\* The cursor after a NoteOn was handed to the voice at the cursor.
NextOnIndex(index, len) == (index + 1) % len

\* The voices RangeData::turn_note_on hands the event to.
NoteOnTargets(r, index, note) == IF Contains(r, note) THEN {index} ELSE {}

\* The voices RangeData::turn_note_off hands the event to.
NoteOffTargets(r, note) == IF Contains(r, note) THEN Voices ELSE {}

Deliver(targets, ev) ==
    [v \in Voices |-> IF v \in targets THEN VoiceOnEvent(consumers[v], ev)
                      ELSE consumers[v]]

\* RangeData::on_event, NoteOn: turn_note_on
RangeNoteOn(note) ==
    LET ev == [kind |-> "NoteOn", note |-> note]
        targets == NoteOnTargets(range, next_on_index, note)
    IN  /\ note_ons < MaxNoteOns
        /\ consumers' = Deliver(targets, ev)
        /\ next_on_index' = IF Contains(range, note)
                            THEN NextOnIndex(next_on_index, SOURCE_CAPACITY)
                            ELSE next_on_index
        /\ note_ons' = note_ons + 1
        /\ dispatched' = IF Contains(range, note) THEN dispatched + 1 ELSE dispatched
        /\ last_event' = [kind |-> "NoteOn", note |-> note, cursor |-> next_on_index,
                          k |-> dispatched, reached |-> targets]
        /\ UNCHANGED range
        /\ UNCHANGED notRange

\* RangeData::on_event, NoteOff: turn_note_off
RangeNoteOff(note) ==
    LET ev == [kind |-> "NoteOff", note |-> note]
        targets == NoteOffTargets(range, note)
    IN  /\ consumers' = Deliver(targets, ev)
        /\ last_event' = [kind |-> "NoteOff", note |-> note, cursor |-> next_on_index,
                          k |-> dispatched, reached |-> targets]
        /\ UNCHANGED <<range, next_on_index, note_ons, dispatched>>
        /\ UNCHANGED notRange

\* RangeData::on_event, Broadcast and NodeControl: every voice
RangeBroadcast ==
    LET ev == [kind |-> "Broadcast", note |-> 0]
    IN  /\ consumers' = Deliver(Voices, ev)
        /\ last_event' = [kind |-> "Broadcast", note |-> 0, cursor |-> next_on_index,
                          k |-> dispatched, reached |-> Voices]
        /\ UNCHANGED <<range, next_on_index, note_ons, dispatched>>
        /\ UNCHANGED notRange

RangeNext ==
    \/ \E note \in Notes : RangeNoteOn(note)
    \/ \E note \in Notes : RangeNoteOff(note)
    \/ RangeBroadcast

\* C5: round-robin voice allocation.  The cursor is always in 0..N-1 and is
\* the number of NoteOns dispatched so far mod N; the k-th NoteOn dispatched
\* (note inside the range) reached exactly voice k mod N and advanced the
\* cursor once; a NoteOn outside the range reached no voice and left the
\* cursor alone.
C5_RoundRobin ==
    /\ next_on_index \in 0..(SOURCE_CAPACITY - 1)
    /\ next_on_index = dispatched % SOURCE_CAPACITY
    /\ last_event.kind = "NoteOn" =>
          IF Contains(range, last_event.note)
          THEN /\ last_event.reached = {last_event.k % SOURCE_CAPACITY}
               /\ dispatched = last_event.k + 1
               /\ next_on_index = (last_event.cursor + 1) % SOURCE_CAPACITY
               /\ consumers[last_event.k % SOURCE_CAPACITY] =
                      [is_on |-> TRUE, current_note |-> last_event.note]
          ELSE /\ last_event.reached = {}
               /\ dispatched = last_event.k
               /\ next_on_index = last_event.cursor

\* The ninth NoteOn dispatched (k = 8) has wrapped around to voice 0.
C5_Witness ==
    /\ last_event.kind = "NoteOn"
    /\ Contains(range, last_event.note)
    /\ last_event.k = SOURCE_CAPACITY
    /\ last_event.reached = {0}

\* The slots holding the note: the voices that are playing it.
Holding(voices, note) ==
    {v \in Voices : voices[v].is_on /\ voices[v].current_note = note}

\* C21: on NoteOff for key k the voice pool delivers the event to the slot
\* currently holding note k (if any) and to no other slot.
C21_NoteOffDelivery ==
    [][last_event'.kind = "NoteOff" =>
          last_event'.reached = Holding(consumers, last_event'.note)]_vars

(***************************************************************************)
(* Part 4: WavSource, the looping sampler (src/src/source/wav.rs)          *)
(***************************************************************************)

PLAYBACK_SAMPLE_RATE == 48000

\* usize::MAX stands for any number larger than every data position the
\* model reaches.
USIZE_MAX == 1000000

\* Bounds of the sampler model: source_data holds 0..MaxDataLen samples, a
\* loop range lies in 0..MaxLoopFrame frames, a pull asks for 0..MaxWavFrames
\* frames.
MaxDataLen == 4
MaxLoopFrame == 3
MaxWavFrames == 3
\* The output frames counted since a NoteOn.
MaxPlayed == 8

\* WavSpec::sample_rate
SampleRates == {24000, 48000, 96000}
\* The note of the data, and the notes played: whole octaves apart, where
\* the pitch ratio is a power of two.
SourceNotes == {12}
WavNotes == {0, 12, 24}

NoLoop == [some |-> FALSE, start_frame |-> 0, end_frame |-> 0]

LoopRanges ==
    {NoLoop} \cup [some : {TRUE}, start_frame : 0..MaxLoopFrame,
                   end_frame : 0..MaxLoopFrame]

WavInputs ==
    [channels : {1, 2}, sample_rate : SampleRates, source_note : SourceNotes,
     data_len : 0..MaxDataLen, loop_range : LoopRanges]

\* WavSource::validate_loop_range: TRUE for Ok(()).
ValidateLoopRange(data_len, channel_count, loop_range) ==
    IF ~loop_range.some THEN TRUE
    ELSE LET frames_in_data == data_len \div channel_count
             range_makes_sense ==
                 \/ loop_range.start_frame <= frames_in_data
                 \/ loop_range.end_frame > frames_in_data
         IN  range_makes_sense

\* WavSource::new_from_data: the loop range handed to WavSource::new.
LoopRangeOrDefault(in) ==
    IF in.loop_range.some THEN in.loop_range
    ELSE [some |-> TRUE, start_frame |-> 0, end_frame |-> USIZE_MAX \div in.channels]

\* WavSource::new.  source_data is its length: sample i of the data has the
\* value i.  playback_scale is PLAYBACK_SAMPLE_RATE / sample_rate, kept as
\* the sample rate.
NewWavSource(in) ==
    LET loop_range == LoopRangeOrDefault(in)
    IN  [is_on |-> FALSE,
         source_note |-> in.source_note,
         source_channel_count |-> in.channels,
         loop_start_data_position |-> loop_range.start_frame * in.channels,
         loop_end_data_position |-> loop_range.end_frame * in.channels,
         data_position |-> in.data_len,
         current_note |-> 0,
         source_data |-> in.data_len,
         sample_rate |-> in.sample_rate]

\* The record of a call: for fill_buffer, the frames asked for (n), how it
\* ended (status), the source samples added to each frame (written), the
\* caller's buffer before and after (before, buffer), whether a subtraction
\* underflowed and whether the sampler was on when called.  played counts the
\* output frames pulled since the last NoteOn, as far as MaxPlayed and for
\* as long as the sampler stays on: it is kept for a looping sampler playing
\* at its native pitch and rate.
NoWavCall ==
    [call |-> "none", n |-> 0, status |-> "none", written |-> <<>>,
     underflow |-> FALSE, was_on |-> FALSE, before |-> <<>>, buffer |-> <<>>,
     played |-> 0]

\* WavSource::new_from_data
WavCtor(in) ==
    IF ValidateLoopRange(in.data_len, in.channels, in.loop_range)
    THEN "Ok" ELSE "UserError"

RECURSIVE Pow2(_)
Pow2(k) == IF k <= 0 THEN 1 ELSE 2 * Pow2(k - 1)

\* util::relative_pitch_ratio_of(current_note, source_note) =
\* 2^((current_note - source_note) / 12), as <<num, den>>, for notes whole
\* octaves apart.
RelativePitchRatioOf(current_note, source_note) ==
    LET octaves == (current_note - source_note) \div 12
    IN  IF octaves >= 0 THEN <<Pow2(octaves), 1>> ELSE <<1, Pow2(-octaves)>>

\* source_frames_per_output_frame = relative_pitch * playback_scale, as
\* <<num, den>>.
SourceFramesPerOutputFrame(w) ==
    LET relative_pitch == RelativePitchRatioOf(w.current_note, w.source_note)
    IN  <<relative_pitch[1] * PLAYBACK_SAMPLE_RATE, relative_pitch[2] * w.sample_rate>>

\* A source index that ignores the stretch.
StretchIndexNative(dst_frames, src_channels, f) == dst_frames * src_channels

\* The source index of stretch_buffer after dst_frames output frames.
StretchIndex(dst_frames, src_channels, f) ==
    AsUsize(dst_frames * f[1], f[2]) * src_channels

\* WavSource::stretch_buffer on a source slice of src_len samples and a
\* destination of dst_frames frames: the samples advanced in the source
\* (src), the frames written (dst), the source index added to the left and
\* right sample of each frame written (idxs), and whether src[src_index + 1]
\* was out of range.
RECURSIVE StretchFrom(_, _, _, _, _, _, _)
StretchFrom(src_len, src_channels, dst_frames, f, k, src_index, idxs) ==
    IF src_index < src_len /\ k < dst_frames
    THEN IF src_channels = 2 /\ src_index + 1 >= src_len
         THEN [src |-> src_index, dst |-> k, idxs |-> idxs, panic |-> TRUE]
         ELSE StretchFrom(src_len, src_channels, dst_frames, f, k + 1,
                          StretchIndex(k + 1, src_channels, f),
                          Append(idxs, <<src_index,
                                         src_index + (src_channels - 1)>>))
    ELSE [src |-> src_index, dst |-> k, idxs |-> idxs, panic |-> FALSE]

StretchBuffer(src_len, src_channels, dst_frames, f) ==
    StretchFrom(src_len, src_channels, dst_frames, f, 0, 0, <<>>)

\* Whether the loop of fill_buffer goes on after a source segment was played
\* to data_position: the `!=` test before the jump back.
SegmentEndedPast(data_position, source_end_point) == data_position > source_end_point

SegmentEnded(data_position, source_end_point) == data_position = source_end_point

\* An output frame nothing was added to.
Unwritten == <<-1, -1>>

\* The frames of the buffer after stretch_buffer wrote r.dst frames at off,
\* reading the source from data_position.
WriteFrames(out, off, data_position, r) ==
    [i \in 1..Len(out) |->
        IF i > off /\ i <= off + r.dst
        THEN <<data_position + r.idxs[i - off][1], data_position + r.idxs[i - off][2]>>
        ELSE out[i]]

\* The while loop of WavSource::fill_buffer on a buffer of n frames.  st is
\* data_position (dp), is_on (on), the frames of the buffer before
\* remaining_buffer (off), the buffer (out) and the loop states seen so far:
\* the loop is deterministic, so a state seen twice is a loop that never ends.
RECURSIVE WavLoop(_, _, _, _)
WavLoop(w, f, n, st) ==
    IF st.off >= n
    THEN [dp |-> st.dp, on |-> st.on, out |-> st.out, status |-> "Ok"]
    ELSE IF <<st.dp, st.on, st.off>> \in st.seen
    THEN [dp |-> st.dp, on |-> st.on, out |-> st.out, status |-> "hang"]
    ELSE IF st.dp >= w.source_data
    THEN [dp |-> st.dp, on |-> FALSE, out |-> st.out, status |-> "Ended"]
    ELSE
      LET source_end_point ==
              IF st.on THEN Min(w.source_data, w.loop_end_data_position)
              ELSE w.source_data
      IN  IF st.dp > source_end_point
          THEN [dp |-> st.dp, on |-> st.on, out |-> st.out,
                status |-> "panic: slice index"]
          ELSE
            LET r == StretchBuffer(source_end_point - st.dp,
                                   w.source_channel_count, n - st.off, f)
                dp2 == st.dp + r.src
                out2 == WriteFrames(st.out, st.off, st.dp, r)
            IN  IF r.panic
                THEN [dp |-> st.dp, on |-> st.on, out |-> out2,
                      status |-> "panic: index"]
                ELSE IF ~SegmentEnded(dp2, source_end_point)
                THEN [dp |-> dp2, on |-> st.on, out |-> out2, status |-> "Ok"]
                ELSE IF st.on /\ source_end_point = w.loop_end_data_position
                THEN WavLoop(w, f, n,
                             [dp |-> w.loop_start_data_position, on |-> st.on,
                              off |-> st.off + r.dst, out |-> out2,
                              seen |-> st.seen \cup {<<st.dp, st.on, st.off>>}])
                ELSE [dp |-> dp2, on |-> FALSE, out |-> out2, status |-> "Ended"]

\* The wrap at the start of fill_buffer:
\*   data_position -= loop_end_data_position - loop_start_data_position.
\* When loop_start is beyond loop_end the subtraction underflows: a panic
\* with overflow checks (a debug build), and without them two wrapping
\* subtractions that leave data_position + (loop_start - loop_end).
WrapAtStart(w, overflow_checks) ==
    IF w.is_on /\ w.data_position >= w.loop_end_data_position
    THEN IF w.loop_end_data_position < w.loop_start_data_position
         THEN IF overflow_checks
              THEN [dp |-> w.data_position, underflow |-> TRUE, panic |-> TRUE]
              ELSE [dp |-> w.data_position
                           + (w.loop_start_data_position - w.loop_end_data_position),
                    underflow |-> TRUE, panic |-> FALSE]
         ELSE [dp |-> w.data_position
                      - (w.loop_end_data_position - w.loop_start_data_position),
               underflow |-> FALSE, panic |-> FALSE]
    ELSE [dp |-> w.data_position, underflow |-> FALSE, panic |-> FALSE]

\* The sampler still runs: it was built, and no call on it has panicked or
\* failed to return.
WavAlive == wav_ctor = "Ok" /\ wav_out.status \in {"none", "Ok", "Ended"}

\* The frames of the data handed to new_from_data.
FramesInData(in) == in.data_len \div in.channels

\* A loop range that makes sense: start < end <= frames_in_data.
SensibleLoop(in) ==
    /\ in.loop_range.some
    /\ in.loop_range.start_frame < in.loop_range.end_frame
    /\ in.loop_range.end_frame <= FramesInData(in)

\* The data holds whole frames.
WholeFrames(in) == in.data_len % in.channels = 0

\* A looping sampler that is on and plays at its native pitch and rate.
NativeLoop(w, in) ==
    /\ w.is_on
    /\ w.current_note = w.source_note
    /\ w.sample_rate = PLAYBACK_SAMPLE_RATE
    /\ WholeFrames(in)
    /\ SensibleLoop(in)

\* WavSource::on_event, NoteOn
WavNoteOn(note) ==
    /\ WavAlive
    /\ wav' = [wav EXCEPT !.is_on = TRUE, !.data_position = 0, !.current_note = note]
    /\ wav_out' = [NoWavCall EXCEPT !.call = "NoteOn"]
    /\ UNCHANGED <<wav_input, wav_ctor>>
    /\ UNCHANGED notWav

\* A NoteOff arm that flips is_on.
NoteOffToggles(w, note) == [w EXCEPT !.is_on = ~w.is_on]

\* The NoteOff arm of WavSource::on_event on the sampler w.
NoteOffArm(w, note) ==
    IF w.current_note # note \/ ~w.is_on
    THEN w
    ELSE [w EXCEPT !.is_on = FALSE]

\* WavSource::on_event, NoteOff
WavNoteOff(note) ==
    /\ WavAlive
    /\ wav' = NoteOffArm(wav, note)
    /\ wav_out' = [NoWavCall EXCEPT !.call = "NoteOff",
                                    !.played = IF NativeLoop(wav', wav_input)
                                               THEN wav_out.played ELSE 0]
    /\ UNCHANGED <<wav_input, wav_ctor>>
    /\ UNCHANGED notWav

\* A buffer of n frames of silence.
ZeroBuffer(n) == [i \in 1..n |-> <<0, 0>>]

\* The value of source_data[i]: no two samples alike, none of them zero.
Sample(i) == i + 1

\* dst[dst_index] += sample
OverwriteSample(dst, sample) == sample

AddSample(dst, sample) == dst + sample

\* The caller's buffer after stretch_buffer added the source samples of
\* written to it.
Accumulate(before, written) ==
    [i \in 1..Len(before) |->
        IF written[i] = Unwritten THEN before[i]
        ELSE <<AddSample(before[i][1], Sample(written[i][1])),
               AddSample(before[i][2], Sample(written[i][2]))>>]

\* WavSource::fill_buffer on the sampler w and the caller's buffer before,
\* in a build with or without overflow checks: the sampler after the call
\* (wav) and the record of the call (out).
WavPull(w, before, overflow_checks) ==
    LET n == Len(before)
        call == [NoWavCall EXCEPT !.call = "fill_buffer", !.n = n,
                                  !.was_on = w.is_on, !.before = before]
    IN  IF n = 0
        THEN [wav |-> w,
              out |-> [call EXCEPT !.status = "Ok", !.buffer = before]]
        ELSE LET pre == WrapAtStart(w, overflow_checks)
                 zeroed == [i \in 1..n |-> Unwritten]
                 r == WavLoop(w, SourceFramesPerOutputFrame(w), n,
                              [dp |-> pre.dp, on |-> w.is_on, off |-> 0,
                               out |-> zeroed, seen |-> {}])
             IN  IF pre.panic
                 THEN [wav |-> w,
                       out |-> [call EXCEPT
                                   !.status = "panic: subtract with overflow",
                                   !.written = zeroed, !.underflow = TRUE,
                                   !.buffer = before]]
                 ELSE [wav |-> [w EXCEPT !.data_position = r.dp, !.is_on = r.on],
                       out |-> [call EXCEPT
                                   !.status = r.status, !.written = r.out,
                                   !.underflow = pre.underflow,
                                   !.buffer = Accumulate(before, r.out)]]

\* WavSource::fill_buffer called with the buffer before.
WavFillInto(before, overflow_checks) ==
    /\ WavAlive
    /\ LET r == WavPull(wav, before, overflow_checks)
       IN  /\ wav' = r.wav
           /\ wav_out' = [r.out EXCEPT
                             !.played = IF NativeLoop(r.wav, wav_input)
                                        THEN Min(wav_out.played + Len(before),
                                                 MaxPlayed + 1)
                                        ELSE 0]
    /\ UNCHANGED <<wav_input, wav_ctor>>
    /\ UNCHANGED notWav

\* WavSource::fill_buffer on a zeroed buffer of n frames.
WavFillBuffer(n, overflow_checks) == WavFillInto(ZeroBuffer(n), overflow_checks)

WavNext ==
    \/ \E note \in WavNotes : WavNoteOn(note)
    \/ \E note \in WavNotes : WavNoteOff(note)
    \/ \E n \in 0..MaxWavFrames, overflow_checks \in BOOLEAN :
            WavFillBuffer(n, overflow_checks)

(***************************************************************************)
(* Claims about the sampler                                                *)
(***************************************************************************)

\* A sampler as the specification describes it: whole frames, and no loop or
\* a loop range that makes sense.
SensibleSampler ==
    /\ wav_ctor = "Ok"
    /\ WholeFrames(wav_input)
    /\ ~wav_input.loop_range.some \/ SensibleLoop(wav_input)

\* C6: after any sequence of NoteOn, NoteOff and fill_buffer calls,
\* 0 <= data_position <= source_data.len(), and data_position < loop_end
\* whenever looping is active and is_on.  Stated for the samplers with whole
\* frames and a sensible loop range, and for the calls that returned.
C6_DataPositionInRange ==
    (SensibleSampler /\ WavAlive /\ wav_out.call = "fill_buffer") =>
        /\ 0 <= wav.data_position
        /\ wav.data_position <= wav.source_data
        /\ (wav_input.loop_range.some /\ wav.is_on) =>
               wav.data_position < wav.loop_end_data_position

\* A pull that played n frames out of one stretch of the data of a sampler
\* without a loop, at its source note: every frame was written and the data
\* did not end.
PlainPull ==
    /\ wav_ctor = "Ok"
    /\ ~wav_input.loop_range.some
    /\ wav_out.call = "fill_buffer" /\ wav_out.status = "Ok" /\ wav_out.n > 0
    /\ wav.current_note = wav.source_note
    /\ \A i \in 1..wav_out.n : wav_out.written[i] # Unwritten

\* C32: played at its source note, a source recorded at rate R consumes
\* floor(F * R / 48000) source frames per F output frames:
\* source_frames_per_output_frame is the pitch ratio divided by
\* playback_scale = 48000 / R.
C32_SourceFramesConsumed ==
    PlainPull =>
        wav.data_position - wav_out.written[1][1] =
            ((wav_out.n * wav.sample_rate) \div PLAYBACK_SAMPLE_RATE)
                * wav.source_channel_count

\* Two pulls of f1 and f2 frames on the sampler w, and one pull of f1 + f2
\* frames on it, in a build with overflow checks.
SplitPull(w, f1, f2) ==
    LET first == WavPull(w, ZeroBuffer(f1), TRUE)
        second == WavPull(first.wav, ZeroBuffer(f2), TRUE)
        whole == WavPull(w, ZeroBuffer(f1 + f2), TRUE)
    IN  [returned |-> {first.out.status, second.out.status, whole.out.status}
                          \subseteq {"Ok", "Ended"},
         split_buffer |-> first.out.buffer \o second.out.buffer,
         split_position |-> second.wav.data_position,
         whole_buffer |-> whole.out.buffer,
         whole_position |-> whole.wav.data_position]

\* C33: the output and the final data_position of a sampler do not depend on
\* how a run of output frames is split into pulls: from every state reached,
\* and so for every pitch ratio, F1 frames and then F2 frames give the same
\* F1 + F2 frames and the same data_position as one pull of F1 + F2 frames.
C33_SplitInvariant ==
    (SensibleSampler /\ WavAlive) =>
        \A f1 \in 1..(MaxWavFrames - 1) : \A f2 \in 1..(MaxWavFrames - f1) :
            LET r == SplitPull(wav, f1, f2)
            IN  r.returned =>
                    /\ r.split_buffer = r.whole_buffer
                    /\ r.split_position = r.whole_position

\* C7: a pull always completes on a sampler: every fill_buffer call on a
\* sampler the constructor accepted (start == end included) returns after
\* finitely many iterations of its loop.
C7_PullCompletes ==
    wav_out.call = "fill_buffer" => wav_out.status # "hang"

\* A call failed at runtime: a slice or an index out of range, or an unsigned
\* subtraction that underflowed.
RuntimeFailure ==
    \/ wav_out.status \in {"panic: slice index", "panic: index",
                           "panic: subtract with overflow"}
    \/ wav_out.underflow

\* C8: no call on a sampler the constructor accepted fails at runtime: no
\* slice or index is out of range and no unsigned subtraction underflows.
C8_NoRuntimeFailure ==
    wav_ctor = "Ok" => ~RuntimeFailure

\* The same for the samplers with whole frames and a sensible loop range
\* only: it fails there too, so C8 does not fail through the accepted
\* nonsensical ranges alone.
SensibleSamplerNeverFails ==
    SensibleSampler => ~RuntimeFailure

\* C9: new_from_data with a loop range returns a User error exactly when the
\* range does not satisfy start < end <= frames_in_data.
C9_LoopRangeValidated ==
    wav_input.loop_range.some =>
        (wav_ctor = "UserError" <=> ~SensibleLoop(wav_input))

\* C10: while a looping sampler is on, a pull that reaches loop_end jumps to
\* loop_start and goes on filling: no frame of the pull is left unwritten,
\* whatever the pitch ratio.
C10_LoopFillsWholeBuffer ==
    (SensibleSampler /\ SensibleLoop(wav_input) /\ wav_out.call = "fill_buffer"
        /\ wav_out.was_on /\ wav_out.status \in {"Ok", "Ended"}) =>
        \A i \in 1..wav_out.n : wav_out.written[i] # Unwritten

\* The PCM frame the claim gives output frame k (counted from the NoteOn)
\* of a looping sampler at native pitch and rate: k before loop_end, and from
\* there loop_start + ((k - loop_end) mod (loop_end - loop_start)).
LoopFrame(k, loop_range) ==
    IF k < loop_range.end_frame THEN k
    ELSE loop_range.start_frame
         + ((k - loop_range.end_frame)
            % (loop_range.end_frame - loop_range.start_frame))

\* C11: loop wrap at native pitch and rate.  While a looping sampler with
\* loop_start < loop_end <= frames stays on after a NoteOn, every pull
\* returns Ok with the sampler still on, and output frame k counted from the
\* NoteOn is PCM frame LoopFrame(k), however the output is split into pulls.
C11_LoopWrap ==
    (/\ wav_ctor = "Ok"
     /\ wav_out.call = "fill_buffer"
     /\ wav_out.was_on
     /\ NativeLoop([wav EXCEPT !.is_on = TRUE], wav_input)) =>
        /\ wav.is_on
        /\ wav_out.status = "Ok"
        /\ wav_out.played <= MaxPlayed =>
              \A i \in 1..wav_out.n :
                  LET frame == LoopFrame(wav_out.played - wav_out.n + i - 1,
                                         wav_input.loop_range)
                  IN  wav_out.written[i] =
                          <<frame * wav_input.channels,
                            frame * wav_input.channels + (wav_input.channels - 1)>>

\* A sampler looping over frames 1..3 has played 7 frames in several pulls:
\* the last pull rendered output frames 5 and 6, the first of them the second
\* return of PCM frame 1.
C11_Witness ==
    /\ wav_ctor = "Ok"
    /\ NativeLoop(wav, wav_input)
    /\ wav_input.loop_range.start_frame = 1
    /\ wav_input.loop_range.end_frame = 3
    /\ wav_out.call = "fill_buffer"
    /\ wav_out.n = 2
    /\ wav_out.played = 7
    /\ wav_out.written[1][1] = wav_input.channels

\* C13: silent when off.  A sampler that is off when pulled (it has received
\* no NoteOn, or the NoteOff of the note it last played) adds nothing to the
\* buffer.
C13_SilentWhenOff ==
    (wav_ctor = "Ok" /\ wav_out.call = "fill_buffer" /\ ~wav_out.was_on) =>
        /\ \A i \in 1..wav_out.n : wav_out.written[i] = Unwritten
        /\ wav_out.buffer = wav_out.before

(***************************************************************************)
(* The sampler transpose scenario: a mono sampler at the playback rate,    *)
(* played at its source note or one octave above it.                       *)
(***************************************************************************)

\* Bounds of the scenario: the data holds 0..MaxTransposeData samples, a
\* pull asks for 1..MaxTransposeFrames frames.
MaxTransposeData == 10
MaxTransposeFrames == 4

\* The loop ranges of the scenario: none, or frames 2..9.
TransposeLoops == {NoLoop, [some |-> TRUE, start_frame |-> 2, end_frame |-> 9]}

TransposeInputs ==
    [channels : {1}, sample_rate : {PLAYBACK_SAMPLE_RATE}, source_note : SourceNotes,
     data_len : 0..MaxTransposeData, loop_range : TransposeLoops]

TransposeNext ==
    \/ \E note \in {12, 24} : WavNoteOn(note)
    \/ \E note \in {24} : WavNoteOff(note)
    \/ \E n \in 1..MaxTransposeFrames, overflow_checks \in BOOLEAN :
            WavFillBuffer(n, overflow_checks)

\* The end of the source segment a pull of the sampler w reads up to.
SourceEndPoint(w) ==
    IF w.is_on THEN Min(w.source_data, w.loop_end_data_position) ELSE w.source_data

\* C26: sampler transpose.  A mono sampler at the playback rate, playing one
\* octave above its source note, pulled for F frames where neither the loop
\* end nor the data end is reached, advances data_position by exactly 2*F
\* source frames; output frame i takes source frame 2i counted from
\* data_position, and its left and right samples are identical.
C26_Transpose ==
    [][(/\ wav_out'.call = "fill_buffer"
        /\ wav.source_channel_count = 1
        /\ wav.sample_rate = PLAYBACK_SAMPLE_RATE
        /\ wav.current_note = wav.source_note + 12
        /\ wav.data_position + 2 * wav_out'.n < SourceEndPoint(wav)) =>
           /\ wav_out'.status = "Ok"
           /\ wav'.data_position = wav.data_position + 2 * wav_out'.n
           /\ \A i \in 1..wav_out'.n :
                  /\ wav_out'.written[i][1] = wav.data_position + 2 * (i - 1)
                  /\ wav_out'.written[i][2] = wav_out'.written[i][1]
                  /\ wav_out'.buffer[i][1] = Sample(wav.data_position + 2 * (i - 1))
                  /\ wav_out'.buffer[i][2] = wav_out'.buffer[i][1]]_vars

\* A sampler playing one octave up was pulled for 2 frames from source frame
\* 4 and stopped short of the end of its data.
C26_Witness ==
    /\ wav_out.call = "fill_buffer"
    /\ wav_out.status = "Ok"
    /\ wav_out.n = 2
    /\ wav.current_note = wav.source_note + 12
    /\ wav_out.written = <<<<4, 4>>, <<6, 6>>>>
    /\ wav.data_position = 8
    /\ wav.data_position < wav.source_data

(***************************************************************************)
(* Part 5: the tone generators, SquareWaveNode                             *)
(* (src/src/node/generator/square.rs) and TriangleWaveSource               *)
(* (src/src/source/triangle.rs)                                            *)
(*                                                                         *)
(* The f32 values of the phase machinery are modelled as exact rationals   *)
(* <<num, den>> in lowest terms, den > 0.                                  *)
(***************************************************************************)

RECURSIVE GCD(_, _)
GCD(a, b) == IF b = 0 THEN a ELSE GCD(b, a % b)

Abs(a) == IF a < 0 THEN -a ELSE a

Rat(num, den) ==
    LET g == GCD(Abs(num), Abs(den))
        sign == IF den < 0 THEN -1 ELSE 1
    IN  <<(sign * num) \div g, (sign * den) \div g>>

RatAdd(a, b) == Rat(a[1] * b[2] + b[1] * a[2], a[2] * b[2])
RatSub(a, b) == Rat(a[1] * b[2] - b[1] * a[2], a[2] * b[2])
RatMul(a, b) == Rat(a[1] * b[1], a[2] * b[2])
RatDiv(a, b) == Rat(a[1] * b[2], a[2] * b[1])
RatLess(a, b) == a[1] * b[2] < b[1] * a[2]
RatInt(k) == <<k, 1>>

\* Bounds of the generator model: a pull asks for 0..MaxOscFrames frames; a
\* generator is pulled while its cycle_progress_samples is below
\* MaxOscPeriods periods of A440.
MaxOscFrames == 1
MaxOscPeriods == 1

\* The notes played: whole octaves above A4 (69), where frequency_of is
\* rational: 7040 Hz and 112640 Hz.
OscNotes == {117, 165}
\* PitchMultiplier values
Multipliers == {<<4, 1>>}
\* Volume values, NoteOn velocities, SourceBalance values
Volumes == {1, 2}
Velocities == {1}
Balances == {"Both"}
\* The node id of the generator, and the targets of the messages sent to it.
SquareNodeId == 1
Targets ==
    {[kind |-> "Broadcast", id |-> 0], [kind |-> "Node", id |-> SquareNodeId],
     [kind |-> "Node", id |-> 2]}

\* util::frequency_of(key) = 440 * 2^((key - 69) / 12), for keys whole
\* octaves from A4.
FrequencyOf(key) ==
    LET octaves == (key - 69) \div 12
    IN  IF octaves >= 0 THEN <<440 * Pow2(octaves), 1>>
        ELSE Rat(440, Pow2(-octaves))

\* current_frequency is kept as its two factors: the multiplier and the
\* note whose frequency it multiplies; `initial` is the 10.0 Hz of new().
InitialFrequency == [initial |-> TRUE, multiplier |-> <<1, 1>>, note |-> 0]

Hertz(current_frequency) ==
    IF current_frequency.initial THEN <<10, 1>>
    ELSE RatMul(current_frequency.multiplier, FrequencyOf(current_frequency.note))

\* period_samples_a440 = PLAYBACK_SAMPLE_RATE / 440.0
PeriodSamplesA440 == Rat(PLAYBACK_SAMPLE_RATE, 440)

\* SquareWaveNode::new
NewSquareWaveNode(node_id, balance, amplitude, duty_cycle) ==
    [kind |-> "square",
     node_id |-> node_id,
     is_on |-> FALSE,
     current_note |-> 0,
     current_frequency |-> InitialFrequency,
     balance |-> balance,
     cycle_progress_samples |-> <<0, 1>>,
     peak_amplitude |-> amplitude,
     note_velocity |-> 1,
     modulated_volume |-> 1,
     duty_cycle |-> duty_cycle]

\* TriangleWaveSource::new
NewTriangleWaveSource(amplitude) ==
    [kind |-> "triangle",
     is_on |-> FALSE,
     current_note |-> 0,
     cycle_progress_samples |-> <<0, 1>>,
     amplitude |-> amplitude]

\* The record of a call: for an event of the square generator, whether the
\* message was targeted at another node (foreign); for fill_buffer the frames
\* asked for, the caller's buffer before and after, whether the generator was
\* on when called.  changed says whether the call changed a field of the
\* generator; pending is the set of notes whose last NoteOn has not been
\* followed by a NoteOff of that note; phase is the fraction
\* stretched_progress / pitch_period_samples the last pull of a generator
\* that was on ended with.
NoOscCall ==
    [call |-> "none", foreign |-> FALSE, n |-> 0,
     before |-> <<>>, buffer |-> <<>>, was_on |-> FALSE, changed |-> FALSE,
     pending |-> {}, phase |-> <<0, 1>>]

\* A stretched phase that is the stored phase, not rescaled.
StretchedProgressUnscaled(cycle_progress_samples, pitch_period_samples) ==
    cycle_progress_samples

\* stretched_progress at the start of fill_buffer:
\*   cycle_progress_samples * pitch_period_samples / period_samples_a440
StretchedProgress(cycle_progress_samples, pitch_period_samples) ==
    RatDiv(RatMul(cycle_progress_samples, pitch_period_samples),
           PeriodSamplesA440)

\* The message is targeted at a node other than node_id.
Foreign(target, node_id) == target.kind = "Node" /\ target.id # node_id

\* The stretched phase after one more output frame.
AdvancePhase(stretched_progress, pitch_period_samples) ==
    LET advanced == RatAdd(stretched_progress, RatInt(1))
    IN  IF ~RatLess(advanced, pitch_period_samples)
        THEN RatSub(advanced, pitch_period_samples)
        ELSE advanced

\* left_amplitude, right_amplitude
BalanceGains(balance) ==
    CASE balance = "Both" -> <<1, 1>>
      [] balance = "Left" -> <<1, 0>>
      [] balance = "Right" -> <<0, 1>>

\* The value of one frame of the square wave at the stretched phase.
SquareAmplitude(sq, stretched_progress, pitch_period_samples) ==
    LET current_amplitude ==
            sq.peak_amplitude * sq.note_velocity * sq.modulated_volume
        duty == RatDiv(stretched_progress, pitch_period_samples)
    IN  IF RatLess(sq.duty_cycle, duty) THEN current_amplitude
        ELSE -current_amplitude

\* buffer[i] += ...
AddFrame(frame, left, right) == <<frame[1] + left, frame[2] + right>>

\* The for loop of SquareWaveNode::fill_buffer from frame i on.
RECURSIVE SquareFrames(_, _, _, _, _)
SquareFrames(sq, pitch_period_samples, stretched_progress, buffer, i) ==
    IF i > Len(buffer)
    THEN [stretched_progress |-> stretched_progress, buffer |-> buffer]
    ELSE LET advanced == AdvancePhase(stretched_progress, pitch_period_samples)
             amplitude == SquareAmplitude(sq, advanced, pitch_period_samples)
             gains == BalanceGains(sq.balance)
         IN  SquareFrames(sq, pitch_period_samples, advanced,
                          [buffer EXCEPT ![i] = AddFrame(@, gains[1] * amplitude,
                                                         gains[2] * amplitude)],
                          i + 1)

\* SquareWaveNode::fill_buffer on the generator sq and the caller's buffer:
\* the generator after the call and the buffer.
SquarePull(sq, before) ==
    IF ~sq.is_on
    THEN [osc |-> sq, buffer |-> before, phase |-> <<0, 1>>]
    ELSE LET pitch_period_samples ==
                 RatDiv(RatInt(PLAYBACK_SAMPLE_RATE), Hertz(sq.current_frequency))
             stretched_progress ==
                 StretchedProgress(sq.cycle_progress_samples, pitch_period_samples)
             r == SquareFrames(sq, pitch_period_samples, stretched_progress,
                               before, 1)
         IN  [osc |-> [sq EXCEPT !.cycle_progress_samples =
                          RatDiv(RatMul(r.stretched_progress, PeriodSamplesA440),
                                 pitch_period_samples)],
              buffer |-> r.buffer,
              phase |-> RatDiv(r.stretched_progress, pitch_period_samples)]

\* Whether a NoteOff turns the square generator off.
NoteOffIgnored(note, current_note, target) == FALSE

NoteOffApplies(note, current_note, target) ==
    note = current_note \/ target.kind = "Broadcast"

\* SquareWaveNode::try_consume_event on the message [target, data].
SquareConsume(sq, target, data) ==
    CASE data.kind = "NoteOff" ->
            IF NoteOffApplies(data.note, sq.current_note, target)
            THEN [sq EXCEPT !.is_on = FALSE] ELSE sq
      [] data.kind = "NoteOn" ->
            [sq EXCEPT !.is_on = TRUE, !.current_note = data.note,
                       !.current_frequency =
                           [initial |-> FALSE, multiplier |-> <<1, 1>>,
                            note |-> data.note],
                       !.note_velocity = data.vel]
      [] data.kind = "PitchMultiplier" ->
            [sq EXCEPT !.current_frequency =
                           [initial |-> FALSE, multiplier |-> data.multiplier,
                            note |-> sq.current_note]]
      [] data.kind = "SourceBalance" -> [sq EXCEPT !.balance = data.balance]
      [] data.kind = "Volume" -> [sq EXCEPT !.modulated_volume = data.volume]
      [] OTHER -> sq

\* The events sent to a generator.
OscEvents ==
    [kind : {"NoteOn"}, note : OscNotes, vel : Velocities]
        \cup [kind : {"NoteOff"}, note : OscNotes]
        \cup [kind : {"PitchMultiplier"}, multiplier : Multipliers]
        \cup [kind : {"SourceBalance"}, balance : Balances]
        \cup [kind : {"Volume"}, volume : Volumes]

\* The notes with a NoteOn not yet followed by their NoteOff.
Pending(pending, data) ==
    CASE data.kind = "NoteOn" -> pending \cup {data.note}
      [] data.kind = "NoteOff" -> pending \ {data.note}
      [] OTHER -> pending

\* The generator is pulled while its phase is below MaxOscPeriods periods.
OscInBounds ==
    RatLess(osc.cycle_progress_samples,
            RatMul(RatInt(MaxOscPeriods), PeriodSamplesA440))

\* SquareWaveNode::try_consume_event
SquareTryConsumeEvent(target, data) ==
    /\ osc.kind = "square"
    /\ osc' = SquareConsume(osc, target, data)
    /\ osc_out' = [NoOscCall EXCEPT !.call = "try_consume_event",
                                    !.foreign = Foreign(target, osc.node_id),
                                    !.was_on = osc.is_on,
                                    !.changed = (osc' # osc),
                                    !.pending = Pending(osc_out.pending, data),
                                    !.phase = osc_out.phase]
    /\ UNCHANGED notOsc

\* SquareWaveNode::fill_buffer called with the buffer before.
SquareFillInto(before) ==
    /\ osc.kind = "square"
    /\ OscInBounds
    /\ LET r == SquarePull(osc, before)
       IN  /\ osc' = r.osc
           /\ osc_out' = [NoOscCall EXCEPT !.call = "fill_buffer",
                                           !.n = Len(before), !.before = before,
                                           !.buffer = r.buffer,
                                           !.was_on = osc.is_on,
                                           !.changed = (r.osc # osc),
                                           !.pending = osc_out.pending,
                                           !.phase = IF osc.is_on THEN r.phase
                                                     ELSE osc_out.phase]
    /\ UNCHANGED notOsc

\* SquareWaveNode::fill_buffer on a zeroed buffer of n frames.
SquareFillBuffer(n) == SquareFillInto(ZeroBuffer(n))

\* TriangleWaveSource::set_note
TriangleSetNote(kind, note) ==
    /\ osc.kind = "triangle"
    /\ osc' = CASE kind = "NoteOn" ->
                     [osc EXCEPT !.is_on = TRUE, !.current_note = note]
                [] kind = "NoteOff" ->
                     IF osc.current_note # note THEN osc
                     ELSE [osc EXCEPT !.is_on = FALSE]
    /\ osc_out' = [NoOscCall EXCEPT !.call = "set_note", !.was_on = osc.is_on,
                                    !.changed = (osc' # osc),
                                    !.pending =
                                        Pending(osc_out.pending,
                                                [kind |-> kind, note |-> note]),
                                    !.phase = osc_out.phase]
    /\ UNCHANGED notOsc

\* The value of one frame of the triangle wave at the stretched phase.
TriangleAmplitude(amplitude, stretched_progress, pitch_period_samples) ==
    LET duty == RatDiv(stretched_progress, pitch_period_samples)
    IN  IF RatLess(<<1, 2>>, duty)
        THEN RatMul(RatInt(amplitude), RatSub(RatInt(3), RatMul(RatInt(4), duty)))
        ELSE RatMul(RatInt(amplitude), RatSub(RatMul(RatInt(4), duty), RatInt(1)))

\* The for loop of TriangleWaveSource::fill_buffer from frame i on; the
\* samples of the buffer are rationals.
RECURSIVE TriangleFrames(_, _, _, _, _)
TriangleFrames(amplitude, pitch_period_samples, stretched_progress, buffer, i) ==
    IF i > Len(buffer)
    THEN [stretched_progress |-> stretched_progress, buffer |-> buffer]
    ELSE LET advanced == AdvancePhase(stretched_progress, pitch_period_samples)
             value == TriangleAmplitude(amplitude, advanced, pitch_period_samples)
         IN  TriangleFrames(amplitude, pitch_period_samples, advanced,
                            [buffer EXCEPT ![i] = <<RatAdd(@[1], value),
                                                    RatAdd(@[2], value)>>],
                            i + 1)

\* TriangleWaveSource::fill_buffer on a zeroed buffer of n frames.
TriangleFillBuffer(n) ==
    /\ osc.kind = "triangle"
    /\ OscInBounds
    /\ LET zeroed == [i \in 1..n |-> <<RatInt(0), RatInt(0)>>]
           pitch_period_samples ==
               RatDiv(RatInt(PLAYBACK_SAMPLE_RATE), FrequencyOf(osc.current_note))
           stretched_progress ==
               StretchedProgress(osc.cycle_progress_samples, pitch_period_samples)
           r == TriangleFrames(osc.amplitude, pitch_period_samples,
                               stretched_progress, zeroed, 1)
           after == IF ~osc.is_on THEN osc
                    ELSE [osc EXCEPT !.cycle_progress_samples =
                             RatDiv(RatMul(r.stretched_progress, PeriodSamplesA440),
                                    pitch_period_samples)]
       IN  /\ osc' = after
           /\ osc_out' = [NoOscCall EXCEPT !.call = "fill_buffer", !.n = n,
                                           !.before = zeroed,
                                           !.buffer = IF osc.is_on THEN r.buffer
                                                      ELSE zeroed,
                                           !.was_on = osc.is_on,
                                           !.changed = (after # osc),
                                           !.pending = osc_out.pending,
                                           !.phase =
                                               IF osc.is_on
                                               THEN RatDiv(r.stretched_progress,
                                                           pitch_period_samples)
                                               ELSE osc_out.phase]
    /\ UNCHANGED notOsc

OscNext ==
    \/ \E target \in Targets, data \in OscEvents : SquareTryConsumeEvent(target, data)
    \/ \E n \in 0..MaxOscFrames : SquareFillBuffer(n)
    \/ \E kind \in {"NoteOn", "NoteOff"}, note \in OscNotes : TriangleSetNote(kind, note)
    \/ \E n \in 0..MaxOscFrames : TriangleFillBuffer(n)

(***************************************************************************)
(* Claims about the generators                                             *)
(***************************************************************************)

\* C12: silent when off.  A square or triangle generator that has received
\* no NoteOn, or a NoteOff of the same note after every NoteOn, is off; and a
\* generator that is off when pulled leaves a zeroed buffer all zero and
\* keeps its state.
C12_GeneratorSilentWhenOff ==
    /\ osc_out.pending = {} => ~osc.is_on
    /\ (osc_out.call = "fill_buffer" /\ ~osc_out.was_on) =>
           /\ osc_out.buffer = osc_out.before
           /\ ~osc_out.changed

\* A generator that played note 117 and received its NoteOff was pulled for
\* a frame.
C12_Witness ==
    /\ osc_out.call = "fill_buffer"
    /\ osc_out.n = 1
    /\ osc_out.pending = {}
    /\ osc.current_note = 117
    /\ ~osc.is_on
    /\ osc_out.buffer = osc_out.before

\* pitch_period_samples of the generator o, as its next pull computes it.
PitchPeriodSamples(o) ==
    RatDiv(RatInt(PLAYBACK_SAMPLE_RATE),
           IF o.kind = "square" THEN Hertz(o.current_frequency)
           ELSE FrequencyOf(o.current_note))

\* The phase fraction stretched_progress / pitch_period_samples the next
\* pull of the generator o starts with.
StartFraction(o) ==
    RatDiv(StretchedProgress(o.cycle_progress_samples, PitchPeriodSamples(o)),
           PitchPeriodSamples(o))

\* C37: changing the pitch of an oscillator between pulls preserves its
\* fractional phase: no event modifies cycle_progress_samples, and the
\* fraction progress / period the next pull starts with is the fraction the
\* previous pull ended with, whatever the pitch has become.
C37_PhasePreserved ==
    [][/\ osc_out'.call \in {"try_consume_event", "set_note"} =>
            osc'.cycle_progress_samples = osc.cycle_progress_samples
       /\ StartFraction(osc') = osc_out'.phase]_vars

\* A triangle generator that a pull left part of the way through its cycle
\* was given a NoteOn of another key while on.
C37_Witness ==
    /\ osc.kind = "triangle"
    /\ osc_out.call = "set_note"
    /\ osc_out.was_on /\ osc.is_on /\ osc_out.changed
    /\ osc_out.phase # <<0, 1>>
    /\ StartFraction(osc) = osc_out.phase

\* C19: a message targeted at Node(id) leaves a square generator whose node
\* id is not id as it was.
C19_NodeTargeting ==
    (osc.kind = "square" /\ osc_out.call = "try_consume_event"
        /\ osc_out.foreign) => ~osc_out.changed

\* C20: cycle_progress_samples stays in [0, period_samples_a440).
C20_PhaseInRange ==
    osc.kind \in {"square", "triangle"} =>
        /\ osc.cycle_progress_samples[1] >= 0
        /\ RatLess(osc.cycle_progress_samples, PeriodSamplesA440)

(***************************************************************************)
(* The square tone scenario: SquareWave(amplitude 0.5, duty 0.5, Both),    *)
(* NoteOn(69, vel 1), pulled from its initial phase into a zero buffer.    *)
(* Sample values are counted in units of the peak amplitude: 1 is 0.5.     *)
(***************************************************************************)

\* Bound of the scenario: a pull asks for 1..MaxToneFrames frames, one
\* period of A440 rounded down.
MaxToneFrames == 109

ToneNote == 69

ToneBroadcast == [kind |-> "Broadcast", id |-> 0]

\* The generator is at the phase new() gave it.
InitialPhase == osc.cycle_progress_samples = <<0, 1>>

\* fill_buffer on a zero buffer of n frames, from the initial phase.
ToneFill(n) == InitialPhase /\ SquareFillBuffer(n)

ToneNext ==
    \/ SquareTryConsumeEvent(ToneBroadcast,
                             [kind |-> "NoteOn", note |-> ToneNote, vel |-> 1])
    \/ SquareTryConsumeEvent(ToneBroadcast, [kind |-> "NoteOff", note |-> ToneNote])
    \/ \E n \in 1..MaxToneFrames : ToneFill(n)

\* C25: the square tone scenario.  Rendered from its initial phase into a
\* zero buffer, the generator playing note 69 emits within the first period
\* first 54 frames of +0.5 on both channels and then 55 frames of -0.5.
C25_SquareTone ==
    (osc_out.call = "fill_buffer" /\ osc_out.was_on) =>
        \A i \in 1..osc_out.n :
            osc_out.buffer[i] = IF i <= 54 THEN <<1, 1>> ELSE <<-1, -1>>

(***************************************************************************)
(* The leaf nodes pulled with a buffer that already holds audio            *)
(***************************************************************************)

\* The buffers a caller hands to a leaf: silence, or audio already there.
CallerBuffers(n) == {ZeroBuffer(n), [i \in 1..n |-> <<3, 5>>]}

\* The pointwise sum of two buffers of the same length.
BufferSum(a, b) == [i \in 1..Len(a) |-> <<a[i][1] + b[i][1], a[i][2] + b[i][2]>>]

LeafNext ==
    \/ \E note \in WavNotes : WavNoteOn(note)
    \/ \E note \in WavNotes : WavNoteOff(note)
    \/ \E n \in 0..MaxWavFrames, overflow_checks \in BOOLEAN :
            \E before \in CallerBuffers(n) : WavFillInto(before, overflow_checks)
    \/ \E data \in OscEvents :
            SquareTryConsumeEvent([kind |-> "Broadcast", id |-> 0], data)
    \/ \E n \in 0..MaxOscFrames :
            \E before \in CallerBuffers(n) : SquareFillInto(before)

\* C14: accumulation discipline.  A pull of a sampler or of a square
\* generator on a buffer B that returns leaves B plus what the node writes
\* into an all-zero buffer of the same length from the same state, and
\* leaves the node in the state the pull on the all-zero buffer leaves it in.
C14_Accumulation ==
    [][/\ (wav_out'.call = "fill_buffer" /\ wav_out'.status \in {"Ok", "Ended"}) =>
            \E overflow_checks \in BOOLEAN :
                LET z == WavPull(wav, ZeroBuffer(wav_out'.n), overflow_checks)
                IN  /\ z.out.status = wav_out'.status
                    /\ z.out.underflow = wav_out'.underflow
                    /\ wav' = z.wav
                    /\ wav_out'.buffer = BufferSum(wav_out'.before, z.out.buffer)
       /\ (osc.kind = "square" /\ osc_out'.call = "fill_buffer") =>
            LET z == SquarePull(osc, ZeroBuffer(osc_out'.n))
            IN  /\ osc' = z.osc
                /\ osc_out'.buffer = BufferSum(osc_out'.before, z.buffer)]_vars

\* A sampler that is on was pulled with a buffer that held audio, and added
\* a sample to its first frame.
C14_Witness ==
    /\ wav_out.call = "fill_buffer"
    /\ wav_out.status = "Ok"
    /\ wav_out.was_on
    /\ wav_out.n >= 1
    /\ wav_out.before[1] = <<3, 5>>
    /\ wav_out.written[1] # Unwritten
    /\ wav_out.buffer[1] # wav_out.before[1]

\* The NoteOff for key note sent to a generator.
NoteOffData(note) == [kind |-> "NoteOff", note |-> note]

\* C22: NoteOff is idempotent.  From every state of the sampler and of the
\* square generator, NoteOff(k) delivered twice in a row leaves the state
\* that one delivery leaves; a NoteOff for a key the sampler is not playing
\* (another key, or the sampler is off) changes nothing.
C22_NoteOffIdempotent ==
    /\ wav_ctor = "Ok" =>
          \A k \in WavNotes :
              /\ NoteOffArm(NoteOffArm(wav, k), k) = NoteOffArm(wav, k)
              /\ (wav.current_note # k \/ ~wav.is_on) => NoteOffArm(wav, k) = wav
    /\ osc.kind = "square" =>
          \A k \in OscNotes, target \in Targets :
              SquareConsume(SquareConsume(osc, target, NoteOffData(k)),
                            target, NoteOffData(k))
                  = SquareConsume(osc, target, NoteOffData(k))

\* A sampler that was playing a key other than 0 has just been turned off by
\* the NoteOff of its key: a second NoteOff finds it off.
C22_Witness ==
    /\ wav_ctor = "Ok"
    /\ wav_out.call = "NoteOff"
    /\ ~wav.is_on
    /\ wav.current_note # 0
    /\ wav.data_position < wav.source_data

(***************************************************************************)
(* Part 6: CombinerSource (src/src/node/group/combiner.rs)                 *)
(*                                                                         *)
(* A buffer is held here as its runs of equal frames, in order:            *)
(* <<[frames |-> k, frame |-> <<left, right>>], ...>> with k >= 1 and no   *)
(* two neighbours alike, so that a buffer of BUFFER_SIZE frames is a short *)
(* value.                                                                  *)
(***************************************************************************)

\* consts::BUFFER_SIZE: the frames of the scratch buffer.
BUFFER_SIZE == 2048

\* Bound of the combiner model: a combiner has 0..MaxChildren children.
MaxChildren == 2

\* The children: nodes that keep the node contract and add the same frame
\* <<left, right>> to every frame of the buffer they are given.
ChildNodes == {<<1, 0>>, <<0, 1>>, <<2, 2>>}

\* The frames of the buffers a caller hands to the combiner: short ones, the
\* longest the scratch buffer holds, and one frame more.
CombinerFrames == {1, 2, BUFFER_SIZE, BUFFER_SIZE + 1}

\* n frames, all of them `frame`.
Uniform(n, frame) == IF n = 0 THEN <<>> ELSE <<[frames |-> n, frame |-> frame]>>

\* n frames of silence: vec![0.0; n * CHANNEL_COUNT]
Silence(n) == Uniform(n, <<0, 0>>)

RECURSIVE RunsLen(_)
RunsLen(a) == IF a = <<>> THEN 0 ELSE Head(a).frames + RunsLen(Tail(a))

\* a followed by b
RunsJoin(a, b) ==
    IF a = <<>> THEN b
    ELSE IF b = <<>> THEN a
    ELSE IF a[Len(a)].frame = b[1].frame
    THEN SubSeq(a, 1, Len(a) - 1)
            \o <<[frames |-> a[Len(a)].frames + b[1].frames, frame |-> b[1].frame]>>
            \o Tail(b)
    ELSE a \o b

\* &a[0..n]
RECURSIVE RunsTake(_, _)
RunsTake(a, n) ==
    IF n = 0 \/ a = <<>> THEN <<>>
    ELSE IF Head(a).frames <= n
    THEN <<Head(a)>> \o RunsTake(Tail(a), n - Head(a).frames)
    ELSE <<[frames |-> n, frame |-> Head(a).frame]>>

\* &a[n..]
RECURSIVE RunsDrop(_, _)
RunsDrop(a, n) ==
    IF n = 0 \/ a = <<>> THEN a
    ELSE IF Head(a).frames <= n
    THEN RunsDrop(Tail(a), n - Head(a).frames)
    ELSE <<[frames |-> Head(a).frames - n, frame |-> Head(a).frame]>> \o Tail(a)

\* buffer[index] += intermediate_slice[index], frame by frame
RECURSIVE RunsSum(_, _)
RunsSum(a, b) ==
    IF a = <<>> \/ b = <<>> THEN <<>>
    ELSE LET k == Min(Head(a).frames, Head(b).frames)
             frame == <<Head(a).frame[1] + Head(b).frame[1],
                        Head(a).frame[2] + Head(b).frame[2]>>
         IN  RunsJoin(Uniform(k, frame), RunsSum(RunsDrop(a, k), RunsDrop(b, k)))

\* fill_buffer of a child
ChildFillBuffer(child, buffer) == RunsSum(buffer, Uniform(RunsLen(buffer), child))

\* CombinerSource::new
NewCombinerSource(children) ==
    [consumers |-> children, intermediate_buffer |-> Silence(BUFFER_SIZE)]

\* The record of a call: for fill_buffer the caller's buffer before and after,
\* how the call ended, and for each child whether the scratch slice it was
\* handed was all zero.
NoCombinerCall ==
    [call |-> "none", status |-> "none", before |-> <<>>, buffer |-> <<>>,
     zeroed |-> <<>>, given |-> <<>>]

\* intermediate_slice.fill(0.0) on the first n frames of the scratch buffer
FillSkipped(intermediate_buffer, n) == intermediate_buffer

FillZero(intermediate_buffer, n) ==
    RunsJoin(Silence(n), RunsDrop(intermediate_buffer, n))

\* The for loop of CombinerSource::fill_buffer from child k on: st is the
\* scratch buffer, the caller's buffer and the record of the slices handed
\* to the children.
RECURSIVE CombinerChildren(_, _, _, _)
CombinerChildren(children, n, k, st) ==
    IF k > Len(children) THEN st
    ELSE LET cleared == FillZero(st.intermediate_buffer, n)
             slice == RunsTake(cleared, n)
             rendered == ChildFillBuffer(children[k], slice)
         IN  CombinerChildren(children, n, k + 1,
                 [intermediate_buffer |-> RunsJoin(rendered, RunsDrop(cleared, n)),
                  buffer |-> RunsSum(st.buffer, rendered),
                  zeroed |-> Append(st.zeroed, slice = Silence(n))])

\* CombinerSource::fill_buffer on the caller's buffer before.
CombinerFillBuffer(before) ==
    /\ combiner_out.status # "panic: slice index"
    /\ LET n == RunsLen(before)
       IN  IF n > RunsLen(combiner.intermediate_buffer)
           THEN /\ combiner' = combiner
                /\ combiner_out' = [NoCombinerCall EXCEPT
                                       !.call = "fill_buffer",
                                       !.status = "panic: slice index",
                                       !.before = before, !.buffer = before]
           ELSE LET r == CombinerChildren(combiner.consumers, n, 1,
                             [intermediate_buffer |-> combiner.intermediate_buffer,
                              buffer |-> before, zeroed |-> <<>>])
                IN  /\ combiner' = [combiner EXCEPT
                                       !.intermediate_buffer = r.intermediate_buffer]
                    /\ combiner_out' = [NoCombinerCall EXCEPT
                                           !.call = "fill_buffer", !.status = "Ok",
                                           !.before = before, !.buffer = r.buffer,
                                           !.zeroed = r.zeroed]
    /\ UNCHANGED notCombiner

\* Err(Error::User(..)) with no node
Refusal == [status |-> "Err(User)", node |-> <<>>]

\* A child that is a SoundFont, told apart from ChildNodes by its frame.
SoundFontChild == <<-1, -1>>

\* child.duplicate(): refused by a SoundFont; the duplicate of a node of
\* ChildNodes is a node that renders the same frame.
ChildDuplicate(child) ==
    IF child = SoundFontChild THEN Refusal
    ELSE [status |-> "Ok", node |-> child]

\* The results of duplicate() on each of the children given, in order.
Duplicates(children) == [i \in 1..Len(children) |-> ChildDuplicate(children[i])]

\* The first refusal among results, if any.
FirstRefusal(results) ==
    {i \in 1..Len(results) :
        /\ results[i].status # "Ok"
        /\ \A j \in 1..(i - 1) : results[j].status = "Ok"}

\* A replace_children that keeps the duplicates made before the refusal.
CollectPartly(old, results) ==
    LET refused == FirstRefusal(results)
        kept == IF refused = {} THEN Len(results)
                ELSE (CHOOSE i \in refused : TRUE) - 1
    IN  [status |-> IF refused = {} THEN "Ok" ELSE "Err(User)",
         consumers |-> [i \in 1..kept |-> results[i].node]]

\* children.iter().map(|child| child.duplicate()).collect::<Result<..>>()?
\* and the assignment to self.consumers, which `?` returns before.
Collect(old, results) ==
    LET refused == FirstRefusal(results)
    IN  IF refused = {}
        THEN [status |-> "Ok",
              consumers |-> [i \in 1..Len(results) |-> results[i].node]]
        ELSE [status |-> results[CHOOSE i \in refused : TRUE].status,
              consumers |-> old]

\* CombinerSource::replace_children on the children given.
CombinerReplaceChildren(children) ==
    /\ combiner_out.status # "panic: slice index"
    /\ LET r == Collect(combiner.consumers, Duplicates(children))
       IN  /\ combiner' = [combiner EXCEPT !.consumers = r.consumers]
           /\ combiner_out' = [NoCombinerCall EXCEPT !.call = "replace_children",
                                                     !.status = r.status,
                                                     !.given = children]
    /\ UNCHANGED notCombiner

\* The buffers a caller hands to the combiner: silence, audio already there,
\* and audio in its first frame only.
CombinerBuffers(n) ==
    {Silence(n), Uniform(n, <<3, 5>>),
     RunsJoin(Uniform(1, <<3, 5>>), Silence(n - 1))}

CombinerNext ==
    \/ \E n \in CombinerFrames :
            \E before \in CombinerBuffers(n) : CombinerFillBuffer(before)
    \/ \E children \in SeqsOf(ChildNodes \cup {SoundFontChild}, 0, MaxChildren) :
            CombinerReplaceChildren(children)

\* The sum of what each child renders into a zeroed buffer of n frames.
RECURSIVE ChildrenSum(_, _)
ChildrenSum(children, n) ==
    IF children = <<>> THEN Silence(n)
    ELSE RunsSum(ChildFillBuffer(Head(children), Silence(n)),
                 ChildrenSum(Tail(children), n))

\* C15: a combiner pull that returns leaves the caller's buffer plus the
\* unit-gain sum of what each child renders into a zeroed buffer; every
\* child is handed an all-zero scratch slice, whatever the caller's buffer
\* and its siblings' output.
C15_CombinerSum ==
    (combiner_out.call = "fill_buffer" /\ combiner_out.status = "Ok") =>
        /\ combiner_out.buffer =
               RunsSum(combiner_out.before,
                       ChildrenSum(combiner.consumers, RunsLen(combiner_out.before)))
        /\ Len(combiner_out.zeroed) = Len(combiner.consumers)
        /\ \A k \in 1..Len(combiner_out.zeroed) : combiner_out.zeroed[k]

\* A combiner of two children was pulled with a buffer of two frames or
\* more that held audio in its first frame.
C15_Witness ==
    /\ combiner_out.call = "fill_buffer"
    /\ combiner_out.status = "Ok"
    /\ Len(combiner.consumers) = 2
    /\ Len(combiner_out.before) = 2
    /\ combiner_out.before[1].frame = <<3, 5>>
    /\ combiner_out.buffer[1].frame # <<3, 5>>

\* C16: a combiner pull completes without failure for every caller buffer
\* of one frame or more, whatever its length.
C16_CombinerCompletes ==
    combiner_out.call = "fill_buffer" => combiner_out.status = "Ok"

\* C38: Combiner.replace_children is all-or-nothing.  If the duplicate of
\* any child given is refused, the call returns that error and the children
\* of the combiner are as they were; otherwise its children are the
\* duplicates of the children given, in order.  The children given are as
\* they were given in both cases.
C38_AllOrNothing ==
    [][combiner_out'.call = "replace_children" =>
          LET given == combiner_out'.given
          IN  IF \E i \in 1..Len(given) : given[i] = SoundFontChild
              THEN /\ combiner_out'.status = "Err(User)"
                   /\ combiner' = combiner
              ELSE /\ combiner_out'.status = "Ok"
                   /\ combiner'.consumers =
                          [i \in 1..Len(given) |-> ChildDuplicate(given[i]).node]
                   /\ combiner'.intermediate_buffer = combiner.intermediate_buffer]_vars

\* A combiner with children was given a node that duplicates and then a
\* SoundFont: the call was refused and the combiner holds none of them.
C38_Witness ==
    /\ combiner_out.call = "replace_children"
    /\ combiner_out.status = "Err(User)"
    /\ Len(combiner_out.given) = 2
    /\ combiner_out.given[1] \in ChildNodes
    /\ combiner_out.given[2] = SoundFontChild
    /\ Len(combiner.consumers) = 2
    /\ combiner.consumers[1] # combiner_out.given[1]

(***************************************************************************)
(* Part 7: Node::new_node_id (src/src/source/mod.rs)                       *)
(*                                                                         *)
(* NEXT_ID is an AtomicU64; the calls counted here stay far below the      *)
(* 2^64 - 0x10000 calls after which fetch_add wraps around.                *)
(***************************************************************************)

START_GENERATED_NODE_IDS == 65536

\* Bound of the id model: each thread calls new_node_id at most MaxNewIds
\* times.
MaxNewIds == 3

\* The threads that build nodes.
Threads == {1, 2}

\* A fetch_add whose store is lost.
FetchAddLost(value, operand) == value

\* What AtomicU64::fetch_add stores; it returns the value it found.
FetchAdd(value, operand) == value + operand

\* A thread enters new_node_id.
NewNodeIdCall(t) ==
    /\ id_pc[t] = "idle"
    /\ Len(ids[t]) < MaxNewIds
    /\ id_pc' = [id_pc EXCEPT ![t] = "fetch_add"]
    /\ UNCHANGED <<NEXT_ID, ids>>
    /\ UNCHANGED notIds

\* NEXT_ID.fetch_add(1, Ordering::Relaxed): one atomic read-modify-write.
NewNodeIdFetchAdd(t) ==
    /\ id_pc[t] = "fetch_add"
    /\ ids' = [ids EXCEPT ![t] = Append(@, NEXT_ID)]
    /\ NEXT_ID' = FetchAdd(NEXT_ID, 1)
    /\ id_pc' = [id_pc EXCEPT ![t] = "idle"]
    /\ UNCHANGED notIds

IdsNext ==
    \/ \E t \in Threads : NewNodeIdCall(t)
    \/ \E t \in Threads : NewNodeIdFetchAdd(t)

\* C23: every id returned by new_node_id is >= 0x10000; under any
\* interleaving of the callers the ids returned are pairwise distinct and
\* each caller's successive ids strictly increase.
C23_NodeIds ==
    /\ \A t \in Threads : \A i \in 1..Len(ids[t]) :
           ids[t][i] >= START_GENERATED_NODE_IDS
    /\ \A t, u \in Threads : \A i \in 1..Len(ids[t]), j \in 1..Len(ids[u]) :
           (t # u \/ i # j) => ids[t][i] # ids[u][j]
    /\ \A t \in Threads : \A i \in 1..Len(ids[t]), j \in 1..Len(ids[t]) :
           i < j => ids[t][i] < ids[t][j]

\* The two threads were returned ids in turn, and one is inside new_node_id
\* again.
C23_Witness ==
    /\ Len(ids[1]) = 2
    /\ Len(ids[2]) = 2
    /\ ids[1][1] < ids[2][1]
    /\ ids[2][1] < ids[1][2]
    /\ ids[1][2] < ids[2][2]
    /\ id_pc[1] = "fetch_add"

(***************************************************************************)
(* Part 8: duplicate() of the leaf nodes (SquareWaveNode::duplicate,       *)
(* src/src/node/generator/square.rs; WavSource::duplicate,                 *)
(* src/src/source/wav.rs)                                                  *)
(***************************************************************************)

NoDup == [call |-> "none", status |-> "none", node |-> <<>>]

\* The sample rate WavSource::duplicate hands to WavSource::new:
\*   (PLAYBACK_SAMPLE_RATE as f64 / self.playback_scale) as u32
\* where playback_scale is the f64 quotient 48000.0 / sample_rate.  For the
\* powers of two times 48000 both quotients are exact.  For 44100 the first
\* quotient is rounded to 1.08843537414966 (0x3FF16A3B35FC845A), the second
\* is 44099.99999999999, and the cast truncates it.
RoundTripRate(sample_rate) ==
    CASE sample_rate = 24000 -> 24000
      [] sample_rate = 48000 -> 48000
      [] sample_rate = 96000 -> 96000
      [] sample_rate = 44100 -> 44099

\* The node WavSource::duplicate returns for the sampler w.
DuplicateWav(w) ==
    NewWavSource(
        [channels |-> w.source_channel_count,
         sample_rate |-> RoundTripRate(w.sample_rate),
         source_note |-> w.source_note,
         data_len |-> w.source_data,
         loop_range |->
             [some |-> TRUE,
              start_frame |-> w.loop_start_data_position \div w.source_channel_count,
              end_frame |-> w.loop_end_data_position \div w.source_channel_count]])

\* The node SquareWaveNode::duplicate returns for the generator sq.
DuplicateSquare(sq) ==
    NewSquareWaveNode(sq.node_id, sq.balance, sq.peak_amplitude, sq.duty_cycle)

\* WavSource::duplicate(&self)
WavDuplicate ==
    /\ WavAlive
    /\ dup' = [call |-> "WavSource::duplicate", status |-> "Ok",
               node |-> DuplicateWav(wav)]
    /\ UNCHANGED notDup

\* SquareWaveNode::duplicate(&self)
SquareDuplicate ==
    /\ osc.kind = "square"
    /\ dup' = [call |-> "SquareWaveNode::duplicate", status |-> "Ok",
               node |-> DuplicateSquare(osc)]
    /\ UNCHANGED notDup

\* The samplers duplicated: mono and stereo, at 44100 Hz and at the playback
\* rate, with and without a loop.
DupInputs ==
    [channels : {1, 2}, sample_rate : {44100, PLAYBACK_SAMPLE_RATE},
     source_note : SourceNotes, data_len : {4},
     loop_range : {NoLoop, [some |-> TRUE, start_frame |-> 0, end_frame |-> 2]}]

DupNext ==
    \/ \E note \in WavNotes : WavNoteOn(note)
    \/ \E note \in WavNotes : WavNoteOff(note)
    \/ \E n \in 0..MaxWavFrames : WavFillBuffer(n, TRUE)
    \/ WavDuplicate
    \/ \E data \in OscEvents :
            SquareTryConsumeEvent([kind |-> "Broadcast", id |-> 0], data)
    \/ \E n \in 0..MaxOscFrames : SquareFillBuffer(n)
    \/ SquareDuplicate

ReplaceChildrenAccepted(ranges, children) == [result |-> "Ok", ranges |-> children]

\* SoundFont::replace_children: what it returns and the ranges it leaves.
ReplaceChildrenRefused(ranges, children) == [result |-> "Err(User)", ranges |-> ranges]

\* SoundFont::duplicate(&self)
FontDuplicate ==
    /\ dup' = Refusal @@ [call |-> "SoundFont::duplicate"]
    /\ UNCHANGED notDup

\* SoundFont::replace_children
FontReplaceChildren(children) ==
    LET r == ReplaceChildrenRefused(font_ranges, children)
    IN  /\ font_call' = [NoFontCall EXCEPT !.method = "replace_children",
                                           !.result = r.result]
        /\ font_ranges' = r.ranges
        /\ font_reached' = [c \in 1..Len(r.ranges) |-> 0]
        /\ UNCHANGED notFont

\* MidiSource::duplicate(&self)
MidiDuplicate ==
    /\ dup' = Refusal @@ [call |-> "MidiSource::duplicate"]
    /\ UNCHANGED notDup

\* The fonts, the children offered to them and the tracks of this part.
RefuseFonts ==
    {<<[lower_inclusive |-> 0, upper_inclusive |-> 1]>>,
     <<[lower_inclusive |-> 0, upper_inclusive |-> 1],
       [lower_inclusive |-> 1, upper_inclusive |-> 3]>>}

RefuseChildren == {<<>>, <<[lower_inclusive |-> 2, upper_inclusive |-> 3]>>}

RefuseTracks ==
    {<<[delta |-> 1, kind |-> "NoteOn", channel |-> 0, vel |-> 64],
       [delta |-> 3, kind |-> "NoteOff", channel |-> 0, vel |-> 0]>>}

RefuseNext ==
    \/ \E msg \in FontMessages : FontTryConsumeEvent(msg)
    \/ \E children \in RefuseChildren : FontReplaceChildren(children)
    \/ FontDuplicate
    \/ \E n \in 0..MaxPullFrames : MidiFillBuffer(n)
    \/ MidiDuplicate

\* C28: duplicate and replace_children on a SoundFont, and duplicate on a
\* MidiSource, always return a User error and leave the node (ranges and
\* children, cursor state) unchanged.
C28_Refusals ==
    [][/\ dup'.call \in {"SoundFont::duplicate", "MidiSource::duplicate"} =>
            /\ dup'.status = "Err(User)"
            /\ dup'.node = <<>>
       /\ (dup' # dup) => UNCHANGED <<fontVars, midiVars>>
       /\ font_call'.method = "replace_children" =>
            /\ font_call'.result = "Err(User)"
            /\ font_ranges' = font_ranges]_vars

\* replace_children was refused on a font of two ranges that was offered one
\* child, after MidiSource::duplicate was refused in the middle of the track.
C28_Witness ==
    /\ font_call.method = "replace_children"
    /\ font_call.result = "Err(User)"
    /\ Len(font_ranges) = 2
    /\ dup.call = "MidiSource::duplicate"
    /\ dup.status = "Err(User)"
    /\ next_event_index = 1
    /\ ~has_finished

(***************************************************************************)
(* Part 9: loading an SF2 instrument (src/src/file/font.rs)                *)
(***************************************************************************)

\* Bounds of the loader model: the zones of the instrument and the
\* polyphony_voices asked for.
MaxZones == 3
MaxVoices == 3

\* The zones of an instrument: whether zone.sample() names a sample header of
\* the file, and the key range of the zone.
Zones ==
    [sample : BOOLEAN,
     range : {[lower_inclusive |-> 0, upper_inclusive |-> 1],
              [lower_inclusive |-> 2, upper_inclusive |-> 3]}]

NoSf2 == [call |-> "none", polyphony_voices |-> 0, zones |-> <<>>, ranges |-> <<>>]

\* wav_from_i16_samples: the sampler of a zone, a single voice.
ZoneSource == [kind |-> "WavSource", max_voices |-> 1]

\* The node handed to add_range for a zone:
\*   match polyphony_voices { 0 | 1 => PolyphonyNode::new(None,
\*   polyphony_voices, Box::new(source)), _ => Box::new(source) }
ZoneNode(polyphony_voices, source) ==
    IF polyphony_voices \in {0, 1}
    THEN [kind |-> "Polyphony", max_voices |-> polyphony_voices]
    ELSE source

\* The for loop over instrument.zones: a zone without a sample is skipped,
\* every other zone adds its range and its node to the builder.
RECURSIVE AddRanges(_, _)
AddRanges(zones, polyphony_voices) ==
    IF zones = <<>> THEN <<>>
    ELSE IF ~Head(zones).sample THEN AddRanges(Tail(zones), polyphony_voices)
    ELSE <<[range |-> Head(zones).range,
            node |-> ZoneNode(polyphony_voices, ZoneSource)]>>
             \o AddRanges(Tail(zones), polyphony_voices)

\* soundfont_from_reader on an instrument of the zones given.
SoundfontFromReader(zones, polyphony_voices) ==
    /\ sf2' = [call |-> "soundfont_from_reader",
               polyphony_voices |-> polyphony_voices,
               zones |-> zones,
               ranges |-> AddRanges(zones, polyphony_voices)]
    /\ UNCHANGED notSf2

Sf2Next ==
    \E zones \in SeqsOf(Zones, 0, MaxZones), polyphony_voices \in 0..MaxVoices :
        SoundfontFromReader(zones, polyphony_voices)

\* C39: when an SF2 instrument is loaded, the sampler of each zone is wrapped
\* in a Polyphony of polyphony_voices voices whenever polyphony_voices >= 2,
\* and only polyphony_voices 0 and 1 give a single voice, not multiplexed.
C39_ZonePolyphony ==
    sf2.call = "soundfont_from_reader" =>
        \A i \in 1..Len(sf2.ranges) :
            IF sf2.polyphony_voices >= 2
            THEN /\ sf2.ranges[i].node.kind = "Polyphony"
                 /\ sf2.ranges[i].node.max_voices = sf2.polyphony_voices
            ELSE sf2.ranges[i].node.max_voices <= 1

(***************************************************************************)
(* Specifications: one per component.  The components a specification does *)
(* not run stay as they are here.                                          *)
(***************************************************************************)

IdleMidi ==
    [track_data |-> <<>>, samples_per_tick |-> <<1, 1>>, channel_no |-> 0,
     has_finished |-> FALSE, next_event_index |-> 0, event_ticks_progress |-> 0,
     consumer |-> [frames |-> 0, events |-> 0], pull |-> NoPull]

IdleFont ==
    [font_ranges |-> <<>>, font_call |-> NoFontCall, font_reached |-> <<>>]

IdleRange ==
    [range |-> [lower_inclusive |-> 0, upper_inclusive |-> 0],
     next_on_index |-> 0, consumers |-> NewVoices, note_ons |-> 0,
     dispatched |-> 0, last_event |-> NoPoolEvent]

IdleWav ==
    [wav_input |-> [channels |-> 1, sample_rate |-> PLAYBACK_SAMPLE_RATE,
                    source_note |-> 12, data_len |-> 0, loop_range |-> NoLoop],
     wav_ctor |-> "none", wav |-> <<>>, wav_out |-> NoWavCall]

IdleCombiner ==
    [combiner |-> [consumers |-> <<>>, intermediate_buffer |-> <<>>],
     combiner_out |-> NoCombinerCall]

IdleOsc ==
    [osc |-> [kind |-> "none", is_on |-> FALSE, current_note |-> 0,
              cycle_progress_samples |-> <<0, 1>>],
     osc_out |-> NoOscCall]

IdleIds ==
    [NEXT_ID |-> START_GENERATED_NODE_IDS, id_pc |-> [t \in Threads |-> "idle"],
     ids |-> [t \in Threads |-> <<>>]]

IdleDup == [dup |-> NoDup]

IdleSf2 == [sf2 |-> NoSf2]

InitMidi ==
    /\ track_data \in Tracks
    /\ samples_per_tick \in SamplesPerTick
    /\ channel_no = 0
    /\ has_finished = FALSE
    /\ next_event_index = 0
    /\ event_ticks_progress = 0
    /\ consumer = [frames |-> 0, events |-> 0]
    /\ pull = NoPull
    /\ font_ranges = IdleFont.font_ranges
    /\ font_call = IdleFont.font_call
    /\ font_reached = IdleFont.font_reached
    /\ range = IdleRange.range
    /\ next_on_index = IdleRange.next_on_index
    /\ consumers = IdleRange.consumers
    /\ note_ons = IdleRange.note_ons
    /\ dispatched = IdleRange.dispatched
    /\ last_event = IdleRange.last_event
    /\ wav_input = IdleWav.wav_input
    /\ wav_ctor = IdleWav.wav_ctor
    /\ wav = IdleWav.wav
    /\ wav_out = IdleWav.wav_out
    /\ osc = IdleOsc.osc
    /\ osc_out = IdleOsc.osc_out
    /\ combiner = IdleCombiner.combiner
    /\ combiner_out = IdleCombiner.combiner_out
    /\ NEXT_ID = IdleIds.NEXT_ID
    /\ id_pc = IdleIds.id_pc
    /\ ids = IdleIds.ids
    /\ dup = IdleDup.dup
    /\ sf2 = IdleSf2.sf2

\* MidiTrackSource::new on a track of OrderTracks.
InitOrder ==
    /\ track_data \in OrderTracks
    /\ samples_per_tick \in SamplesPerTick
    /\ channel_no = 0
    /\ has_finished = FALSE
    /\ next_event_index = 0
    /\ event_ticks_progress = 0
    /\ consumer = [frames |-> 0, events |-> 0]
    /\ pull = NoPull
    /\ font_ranges = IdleFont.font_ranges
    /\ font_call = IdleFont.font_call
    /\ font_reached = IdleFont.font_reached
    /\ range = IdleRange.range
    /\ next_on_index = IdleRange.next_on_index
    /\ consumers = IdleRange.consumers
    /\ note_ons = IdleRange.note_ons
    /\ dispatched = IdleRange.dispatched
    /\ last_event = IdleRange.last_event
    /\ wav_input = IdleWav.wav_input
    /\ wav_ctor = IdleWav.wav_ctor
    /\ wav = IdleWav.wav
    /\ wav_out = IdleWav.wav_out
    /\ osc = IdleOsc.osc
    /\ osc_out = IdleOsc.osc_out
    /\ combiner = IdleCombiner.combiner
    /\ combiner_out = IdleCombiner.combiner_out
    /\ NEXT_ID = IdleIds.NEXT_ID
    /\ id_pc = IdleIds.id_pc
    /\ ids = IdleIds.ids
    /\ dup = IdleDup.dup
    /\ sf2 = IdleSf2.sf2

\* MidiTrackSource::new on any track of a file.
InitMidiNew ==
    /\ track_data \in FileTracks
    /\ samples_per_tick \in SamplesPerTick
    /\ channel_no = 0
    /\ has_finished = FALSE
    /\ next_event_index = 0
    /\ event_ticks_progress = 0
    /\ consumer = [frames |-> 0, events |-> 0]
    /\ pull = NoPull
    /\ font_ranges = IdleFont.font_ranges
    /\ font_call = IdleFont.font_call
    /\ font_reached = IdleFont.font_reached
    /\ range = IdleRange.range
    /\ next_on_index = IdleRange.next_on_index
    /\ consumers = IdleRange.consumers
    /\ note_ons = IdleRange.note_ons
    /\ dispatched = IdleRange.dispatched
    /\ last_event = IdleRange.last_event
    /\ wav_input = IdleWav.wav_input
    /\ wav_ctor = IdleWav.wav_ctor
    /\ wav = IdleWav.wav
    /\ wav_out = IdleWav.wav_out
    /\ osc = IdleOsc.osc
    /\ osc_out = IdleOsc.osc_out
    /\ combiner = IdleCombiner.combiner
    /\ combiner_out = IdleCombiner.combiner_out
    /\ NEXT_ID = IdleIds.NEXT_ID
    /\ id_pc = IdleIds.id_pc
    /\ ids = IdleIds.ids
    /\ dup = IdleDup.dup
    /\ sf2 = IdleSf2.sf2

\* A track about to be pulled again and again with pull.n frames.
InitMidiLive ==
    /\ track_data \in Tracks
    /\ samples_per_tick \in SamplesPerTick
    /\ channel_no = 0
    /\ has_finished = FALSE
    /\ next_event_index = 0
    /\ event_ticks_progress = 0
    /\ consumer = [frames |-> 0, events |-> 0]
    /\ pull \in {[NoPull EXCEPT !.n = n] : n \in 1..MaxPullFrames}
    /\ font_ranges = IdleFont.font_ranges
    /\ font_call = IdleFont.font_call
    /\ font_reached = IdleFont.font_reached
    /\ range = IdleRange.range
    /\ next_on_index = IdleRange.next_on_index
    /\ consumers = IdleRange.consumers
    /\ note_ons = IdleRange.note_ons
    /\ dispatched = IdleRange.dispatched
    /\ last_event = IdleRange.last_event
    /\ wav_input = IdleWav.wav_input
    /\ wav_ctor = IdleWav.wav_ctor
    /\ wav = IdleWav.wav
    /\ wav_out = IdleWav.wav_out
    /\ osc = IdleOsc.osc
    /\ osc_out = IdleOsc.osc_out
    /\ combiner = IdleCombiner.combiner
    /\ combiner_out = IdleCombiner.combiner_out
    /\ NEXT_ID = IdleIds.NEXT_ID
    /\ id_pc = IdleIds.id_pc
    /\ ids = IdleIds.ids
    /\ dup = IdleDup.dup
    /\ sf2 = IdleSf2.sf2

InitFont ==
    /\ font_ranges \in SeqsOf(NoteRanges, 1, MaxRanges)
    /\ font_call = NoFontCall
    /\ font_reached = [c \in FontChildren |-> 0]
    /\ track_data = IdleMidi.track_data
    /\ samples_per_tick = IdleMidi.samples_per_tick
    /\ channel_no = IdleMidi.channel_no
    /\ has_finished = IdleMidi.has_finished
    /\ next_event_index = IdleMidi.next_event_index
    /\ event_ticks_progress = IdleMidi.event_ticks_progress
    /\ consumer = IdleMidi.consumer
    /\ pull = IdleMidi.pull
    /\ range = IdleRange.range
    /\ next_on_index = IdleRange.next_on_index
    /\ consumers = IdleRange.consumers
    /\ note_ons = IdleRange.note_ons
    /\ dispatched = IdleRange.dispatched
    /\ last_event = IdleRange.last_event
    /\ wav_input = IdleWav.wav_input
    /\ wav_ctor = IdleWav.wav_ctor
    /\ wav = IdleWav.wav
    /\ wav_out = IdleWav.wav_out
    /\ osc = IdleOsc.osc
    /\ osc_out = IdleOsc.osc_out
    /\ combiner = IdleCombiner.combiner
    /\ combiner_out = IdleCombiner.combiner_out
    /\ NEXT_ID = IdleIds.NEXT_ID
    /\ id_pc = IdleIds.id_pc
    /\ ids = IdleIds.ids
    /\ dup = IdleDup.dup
    /\ sf2 = IdleSf2.sf2

InitRefuse ==
    /\ font_ranges \in RefuseFonts
    /\ font_call = NoFontCall
    /\ font_reached = [c \in FontChildren |-> 0]
    /\ range = IdleRange.range
    /\ next_on_index = IdleRange.next_on_index
    /\ consumers = IdleRange.consumers
    /\ note_ons = IdleRange.note_ons
    /\ dispatched = IdleRange.dispatched
    /\ last_event = IdleRange.last_event
    /\ wav_input = IdleWav.wav_input
    /\ wav_ctor = IdleWav.wav_ctor
    /\ wav = IdleWav.wav
    /\ wav_out = IdleWav.wav_out
    /\ osc = IdleOsc.osc
    /\ osc_out = IdleOsc.osc_out
    /\ combiner = IdleCombiner.combiner
    /\ combiner_out = IdleCombiner.combiner_out
    /\ NEXT_ID = IdleIds.NEXT_ID
    /\ id_pc = IdleIds.id_pc
    /\ ids = IdleIds.ids
    /\ dup = IdleDup.dup
    /\ track_data \in RefuseTracks
    /\ samples_per_tick \in SamplesPerTick
    /\ channel_no = 0
    /\ has_finished = FALSE
    /\ next_event_index = 0
    /\ event_ticks_progress = 0
    /\ consumer = [frames |-> 0, events |-> 0]
    /\ pull = NoPull
    /\ sf2 = IdleSf2.sf2

InitRange ==
    /\ range \in PoolRanges
    /\ next_on_index = 0
    /\ consumers = NewVoices
    /\ note_ons = 0
    /\ dispatched = 0
    /\ last_event = NoPoolEvent
    /\ track_data = IdleMidi.track_data
    /\ samples_per_tick = IdleMidi.samples_per_tick
    /\ channel_no = IdleMidi.channel_no
    /\ has_finished = IdleMidi.has_finished
    /\ next_event_index = IdleMidi.next_event_index
    /\ event_ticks_progress = IdleMidi.event_ticks_progress
    /\ consumer = IdleMidi.consumer
    /\ pull = IdleMidi.pull
    /\ font_ranges = IdleFont.font_ranges
    /\ font_call = IdleFont.font_call
    /\ font_reached = IdleFont.font_reached
    /\ wav_input = IdleWav.wav_input
    /\ wav_ctor = IdleWav.wav_ctor
    /\ wav = IdleWav.wav
    /\ wav_out = IdleWav.wav_out
    /\ osc = IdleOsc.osc
    /\ osc_out = IdleOsc.osc_out
    /\ combiner = IdleCombiner.combiner
    /\ combiner_out = IdleCombiner.combiner_out
    /\ NEXT_ID = IdleIds.NEXT_ID
    /\ id_pc = IdleIds.id_pc
    /\ ids = IdleIds.ids
    /\ dup = IdleDup.dup
    /\ sf2 = IdleSf2.sf2

\* WavSource::new_from_data on every input; the sampler exists when it
\* returned Ok.
InitWav ==
    /\ wav_input \in WavInputs
    /\ wav_ctor = WavCtor(wav_input)
    /\ wav = IF WavCtor(wav_input) = "Ok" THEN NewWavSource(wav_input) ELSE <<>>
    /\ wav_out = [NoWavCall EXCEPT !.call = "new_from_data"]
    /\ track_data = IdleMidi.track_data
    /\ samples_per_tick = IdleMidi.samples_per_tick
    /\ channel_no = IdleMidi.channel_no
    /\ has_finished = IdleMidi.has_finished
    /\ next_event_index = IdleMidi.next_event_index
    /\ event_ticks_progress = IdleMidi.event_ticks_progress
    /\ consumer = IdleMidi.consumer
    /\ pull = IdleMidi.pull
    /\ font_ranges = IdleFont.font_ranges
    /\ font_call = IdleFont.font_call
    /\ font_reached = IdleFont.font_reached
    /\ range = IdleRange.range
    /\ next_on_index = IdleRange.next_on_index
    /\ consumers = IdleRange.consumers
    /\ note_ons = IdleRange.note_ons
    /\ dispatched = IdleRange.dispatched
    /\ last_event = IdleRange.last_event
    /\ osc = IdleOsc.osc
    /\ osc_out = IdleOsc.osc_out
    /\ combiner = IdleCombiner.combiner
    /\ combiner_out = IdleCombiner.combiner_out
    /\ NEXT_ID = IdleIds.NEXT_ID
    /\ id_pc = IdleIds.id_pc
    /\ ids = IdleIds.ids
    /\ dup = IdleDup.dup
    /\ sf2 = IdleSf2.sf2

InitTranspose ==
    /\ wav_input \in TransposeInputs
    /\ wav_ctor = WavCtor(wav_input)
    /\ wav = IF WavCtor(wav_input) = "Ok" THEN NewWavSource(wav_input) ELSE <<>>
    /\ wav_out = [NoWavCall EXCEPT !.call = "new_from_data"]
    /\ track_data = IdleMidi.track_data
    /\ samples_per_tick = IdleMidi.samples_per_tick
    /\ channel_no = IdleMidi.channel_no
    /\ has_finished = IdleMidi.has_finished
    /\ next_event_index = IdleMidi.next_event_index
    /\ event_ticks_progress = IdleMidi.event_ticks_progress
    /\ consumer = IdleMidi.consumer
    /\ pull = IdleMidi.pull
    /\ font_ranges = IdleFont.font_ranges
    /\ font_call = IdleFont.font_call
    /\ font_reached = IdleFont.font_reached
    /\ range = IdleRange.range
    /\ next_on_index = IdleRange.next_on_index
    /\ consumers = IdleRange.consumers
    /\ note_ons = IdleRange.note_ons
    /\ dispatched = IdleRange.dispatched
    /\ last_event = IdleRange.last_event
    /\ osc = IdleOsc.osc
    /\ osc_out = IdleOsc.osc_out
    /\ combiner = IdleCombiner.combiner
    /\ combiner_out = IdleCombiner.combiner_out
    /\ NEXT_ID = IdleIds.NEXT_ID
    /\ id_pc = IdleIds.id_pc
    /\ ids = IdleIds.ids
    /\ dup = IdleDup.dup
    /\ sf2 = IdleSf2.sf2

InitOsc ==
    /\ osc \in {NewSquareWaveNode(SquareNodeId, "Both", 1, <<1, 2>>),
               NewTriangleWaveSource(1)}
    /\ osc_out = NoOscCall
    /\ wav_input = IdleWav.wav_input
    /\ wav_ctor = IdleWav.wav_ctor
    /\ wav = IdleWav.wav
    /\ wav_out = IdleWav.wav_out
    /\ track_data = IdleMidi.track_data
    /\ samples_per_tick = IdleMidi.samples_per_tick
    /\ channel_no = IdleMidi.channel_no
    /\ has_finished = IdleMidi.has_finished
    /\ next_event_index = IdleMidi.next_event_index
    /\ event_ticks_progress = IdleMidi.event_ticks_progress
    /\ consumer = IdleMidi.consumer
    /\ pull = IdleMidi.pull
    /\ font_ranges = IdleFont.font_ranges
    /\ font_call = IdleFont.font_call
    /\ font_reached = IdleFont.font_reached
    /\ range = IdleRange.range
    /\ next_on_index = IdleRange.next_on_index
    /\ consumers = IdleRange.consumers
    /\ note_ons = IdleRange.note_ons
    /\ dispatched = IdleRange.dispatched
    /\ last_event = IdleRange.last_event
    /\ combiner = IdleCombiner.combiner
    /\ combiner_out = IdleCombiner.combiner_out
    /\ NEXT_ID = IdleIds.NEXT_ID
    /\ id_pc = IdleIds.id_pc
    /\ ids = IdleIds.ids
    /\ dup = IdleDup.dup
    /\ sf2 = IdleSf2.sf2

InitTone ==
    /\ osc = NewSquareWaveNode(SquareNodeId, "Both", 1, <<1, 2>>)
    /\ osc_out = NoOscCall
    /\ wav_input = IdleWav.wav_input
    /\ wav_ctor = IdleWav.wav_ctor
    /\ wav = IdleWav.wav
    /\ wav_out = IdleWav.wav_out
    /\ track_data = IdleMidi.track_data
    /\ samples_per_tick = IdleMidi.samples_per_tick
    /\ channel_no = IdleMidi.channel_no
    /\ has_finished = IdleMidi.has_finished
    /\ next_event_index = IdleMidi.next_event_index
    /\ event_ticks_progress = IdleMidi.event_ticks_progress
    /\ consumer = IdleMidi.consumer
    /\ pull = IdleMidi.pull
    /\ font_ranges = IdleFont.font_ranges
    /\ font_call = IdleFont.font_call
    /\ font_reached = IdleFont.font_reached
    /\ range = IdleRange.range
    /\ next_on_index = IdleRange.next_on_index
    /\ consumers = IdleRange.consumers
    /\ note_ons = IdleRange.note_ons
    /\ dispatched = IdleRange.dispatched
    /\ last_event = IdleRange.last_event
    /\ combiner = IdleCombiner.combiner
    /\ combiner_out = IdleCombiner.combiner_out
    /\ NEXT_ID = IdleIds.NEXT_ID
    /\ id_pc = IdleIds.id_pc
    /\ ids = IdleIds.ids
    /\ dup = IdleDup.dup
    /\ sf2 = IdleSf2.sf2

InitLeaf ==
    /\ \/ /\ wav_input \in {in \in WavInputs : in.sample_rate = PLAYBACK_SAMPLE_RATE}
          /\ wav_ctor = WavCtor(wav_input)
          /\ wav = IF WavCtor(wav_input) = "Ok" THEN NewWavSource(wav_input) ELSE <<>>
          /\ wav_out = [NoWavCall EXCEPT !.call = "new_from_data"]
          /\ osc = IdleOsc.osc
          /\ osc_out = IdleOsc.osc_out
       \/ /\ osc = NewSquareWaveNode(SquareNodeId, "Both", 1, <<1, 2>>)
          /\ osc_out = NoOscCall
          /\ wav_input = IdleWav.wav_input
          /\ wav_ctor = IdleWav.wav_ctor
          /\ wav = IdleWav.wav
          /\ wav_out = IdleWav.wav_out
    /\ track_data = IdleMidi.track_data
    /\ samples_per_tick = IdleMidi.samples_per_tick
    /\ channel_no = IdleMidi.channel_no
    /\ has_finished = IdleMidi.has_finished
    /\ next_event_index = IdleMidi.next_event_index
    /\ event_ticks_progress = IdleMidi.event_ticks_progress
    /\ consumer = IdleMidi.consumer
    /\ pull = IdleMidi.pull
    /\ font_ranges = IdleFont.font_ranges
    /\ font_call = IdleFont.font_call
    /\ font_reached = IdleFont.font_reached
    /\ range = IdleRange.range
    /\ next_on_index = IdleRange.next_on_index
    /\ consumers = IdleRange.consumers
    /\ note_ons = IdleRange.note_ons
    /\ dispatched = IdleRange.dispatched
    /\ last_event = IdleRange.last_event
    /\ combiner = IdleCombiner.combiner
    /\ combiner_out = IdleCombiner.combiner_out
    /\ NEXT_ID = IdleIds.NEXT_ID
    /\ id_pc = IdleIds.id_pc
    /\ ids = IdleIds.ids
    /\ dup = IdleDup.dup
    /\ sf2 = IdleSf2.sf2

InitDup ==
    /\ \/ /\ wav_input \in DupInputs
          /\ wav_ctor = WavCtor(wav_input)
          /\ wav = IF WavCtor(wav_input) = "Ok" THEN NewWavSource(wav_input) ELSE <<>>
          /\ wav_out = [NoWavCall EXCEPT !.call = "new_from_data"]
          /\ osc = IdleOsc.osc
          /\ osc_out = IdleOsc.osc_out
       \/ /\ osc = NewSquareWaveNode(SquareNodeId, "Both", 1, <<1, 2>>)
          /\ osc_out = NoOscCall
          /\ wav_input = IdleWav.wav_input
          /\ wav_ctor = IdleWav.wav_ctor
          /\ wav = IdleWav.wav
          /\ wav_out = IdleWav.wav_out
    /\ track_data = IdleMidi.track_data
    /\ samples_per_tick = IdleMidi.samples_per_tick
    /\ channel_no = IdleMidi.channel_no
    /\ has_finished = IdleMidi.has_finished
    /\ next_event_index = IdleMidi.next_event_index
    /\ event_ticks_progress = IdleMidi.event_ticks_progress
    /\ consumer = IdleMidi.consumer
    /\ pull = IdleMidi.pull
    /\ font_ranges = IdleFont.font_ranges
    /\ font_call = IdleFont.font_call
    /\ font_reached = IdleFont.font_reached
    /\ range = IdleRange.range
    /\ next_on_index = IdleRange.next_on_index
    /\ consumers = IdleRange.consumers
    /\ note_ons = IdleRange.note_ons
    /\ dispatched = IdleRange.dispatched
    /\ last_event = IdleRange.last_event
    /\ combiner = IdleCombiner.combiner
    /\ combiner_out = IdleCombiner.combiner_out
    /\ NEXT_ID = IdleIds.NEXT_ID
    /\ id_pc = IdleIds.id_pc
    /\ ids = IdleIds.ids
    /\ dup = NoDup
    /\ sf2 = IdleSf2.sf2

InitCombiner ==
    /\ combiner \in {NewCombinerSource(children) :
                         children \in SeqsOf(ChildNodes, 0, MaxChildren)}
    /\ combiner_out = NoCombinerCall
    /\ track_data = IdleMidi.track_data
    /\ samples_per_tick = IdleMidi.samples_per_tick
    /\ channel_no = IdleMidi.channel_no
    /\ has_finished = IdleMidi.has_finished
    /\ next_event_index = IdleMidi.next_event_index
    /\ event_ticks_progress = IdleMidi.event_ticks_progress
    /\ consumer = IdleMidi.consumer
    /\ pull = IdleMidi.pull
    /\ font_ranges = IdleFont.font_ranges
    /\ font_call = IdleFont.font_call
    /\ font_reached = IdleFont.font_reached
    /\ range = IdleRange.range
    /\ next_on_index = IdleRange.next_on_index
    /\ consumers = IdleRange.consumers
    /\ note_ons = IdleRange.note_ons
    /\ dispatched = IdleRange.dispatched
    /\ last_event = IdleRange.last_event
    /\ wav_input = IdleWav.wav_input
    /\ wav_ctor = IdleWav.wav_ctor
    /\ wav = IdleWav.wav
    /\ wav_out = IdleWav.wav_out
    /\ osc = IdleOsc.osc
    /\ osc_out = IdleOsc.osc_out
    /\ NEXT_ID = IdleIds.NEXT_ID
    /\ id_pc = IdleIds.id_pc
    /\ ids = IdleIds.ids
    /\ dup = IdleDup.dup
    /\ sf2 = IdleSf2.sf2

InitIds ==
    /\ NEXT_ID = START_GENERATED_NODE_IDS
    /\ id_pc = [t \in Threads |-> "idle"]
    /\ ids = [t \in Threads |-> <<>>]
    /\ track_data = IdleMidi.track_data
    /\ samples_per_tick = IdleMidi.samples_per_tick
    /\ channel_no = IdleMidi.channel_no
    /\ has_finished = IdleMidi.has_finished
    /\ next_event_index = IdleMidi.next_event_index
    /\ event_ticks_progress = IdleMidi.event_ticks_progress
    /\ consumer = IdleMidi.consumer
    /\ pull = IdleMidi.pull
    /\ font_ranges = IdleFont.font_ranges
    /\ font_call = IdleFont.font_call
    /\ font_reached = IdleFont.font_reached
    /\ range = IdleRange.range
    /\ next_on_index = IdleRange.next_on_index
    /\ consumers = IdleRange.consumers
    /\ note_ons = IdleRange.note_ons
    /\ dispatched = IdleRange.dispatched
    /\ last_event = IdleRange.last_event
    /\ wav_input = IdleWav.wav_input
    /\ wav_ctor = IdleWav.wav_ctor
    /\ wav = IdleWav.wav
    /\ wav_out = IdleWav.wav_out
    /\ osc = IdleOsc.osc
    /\ osc_out = IdleOsc.osc_out
    /\ combiner = IdleCombiner.combiner
    /\ combiner_out = IdleCombiner.combiner_out
    /\ dup = IdleDup.dup
    /\ sf2 = IdleSf2.sf2

\* No instrument has been loaded.
InitSf2 ==
    /\ sf2 = NoSf2
    /\ track_data = IdleMidi.track_data
    /\ samples_per_tick = IdleMidi.samples_per_tick
    /\ channel_no = IdleMidi.channel_no
    /\ has_finished = IdleMidi.has_finished
    /\ next_event_index = IdleMidi.next_event_index
    /\ event_ticks_progress = IdleMidi.event_ticks_progress
    /\ consumer = IdleMidi.consumer
    /\ pull = IdleMidi.pull
    /\ font_ranges = IdleFont.font_ranges
    /\ font_call = IdleFont.font_call
    /\ font_reached = IdleFont.font_reached
    /\ range = IdleRange.range
    /\ next_on_index = IdleRange.next_on_index
    /\ consumers = IdleRange.consumers
    /\ note_ons = IdleRange.note_ons
    /\ dispatched = IdleRange.dispatched
    /\ last_event = IdleRange.last_event
    /\ wav_input = IdleWav.wav_input
    /\ wav_ctor = IdleWav.wav_ctor
    /\ wav = IdleWav.wav
    /\ wav_out = IdleWav.wav_out
    /\ osc = IdleOsc.osc
    /\ osc_out = IdleOsc.osc_out
    /\ combiner = IdleCombiner.combiner
    /\ combiner_out = IdleCombiner.combiner_out
    /\ dup = IdleDup.dup
    /\ NEXT_ID = IdleIds.NEXT_ID
    /\ id_pc = IdleIds.id_pc
    /\ ids = IdleIds.ids

SpecMidi == InitMidi /\ [][MidiNext]_vars
SpecMidiNew == InitMidiNew /\ [][MidiNext]_vars
SpecOrder == InitOrder /\ [][MidiNext]_vars

\* Repeated pulls: a pull that can change the state is eventually made.
SpecMidiLive == InitMidiLive /\ [][MidiRepull]_vars /\ WF_vars(MidiRepull)

SpecFont == InitFont /\ [][FontNext]_vars

SpecRange == InitRange /\ [][RangeNext]_vars

SpecWav == InitWav /\ [][WavNext]_vars

SpecOsc == InitOsc /\ [][OscNext]_vars

SpecLeaf == InitLeaf /\ [][LeafNext]_vars

SpecCombiner == InitCombiner /\ [][CombinerNext]_vars

SpecIds == InitIds /\ [][IdsNext]_vars
SpecSf2 == InitSf2 /\ [][Sf2Next]_vars

SpecTone == InitTone /\ [][ToneNext]_vars

SpecTranspose == InitTranspose /\ [][TransposeNext]_vars

SpecDup == InitDup /\ [][DupNext]_vars

SpecRefuse == InitRefuse /\ [][RefuseNext]_vars

====
